---- MODULE Spec2Model ----
(***************************************************************************)
(* Autonomous decision engine of the Hyperscape skill: the goal catalog    *)
(* (autonomy/goals.ts), the guardrail catalog (autonomy/guardrails.ts) and *)
(* the tick loop of AutonomousAgent (index.ts) running against the live    *)
(* state of HyperscapeClient (client.ts).                                  *)
(*                                                                         *)
(* JavaScript strings that the code inspects (toLowerCase, includes) are   *)
(* sequences of one-character strings; identifiers that are only compared  *)
(* for equality (tool ids, goal ids, entity types) are TLA+ strings.       *)
(* Health is an integer with maxHealth 100, for which health/maxHealth*100 *)
(* falls on the same side of every threshold of the code as the exact      *)
(* quotient.                                                               *)
(***************************************************************************)
EXTENDS Integers, Sequences, FiniteSets, TLC

VARIABLES
  state,        \* client.state: the live GameState the agent reads
  delivered,    \* the number of server packets the client has handled
  calls,        \* the number of calls of start() and stop() made so far
  faults,       \* whether the transport and the logging sink can fail
  config,       \* AutonomousAgent.config
  now,          \* Date.now(), in ms since the client was created
  running,      \* AutonomousAgent.running
  tickTimer,    \* AutonomousAgent.tickTimer: a timer handle, 0 for null
  timers,       \* the pending setTimeout callbacks
  timerSeq,     \* the number of timers created so far
  tasks,        \* the async activations suspended at an await
  goalContext,  \* AutonomousAgent.goalContext
  currentGoal,  \* AutonomousAgent.currentGoal (a goal id or NoGoal)
  goalProgress, \* AutonomousAgent.goalProgress
  thoughts,     \* AutonomousAgent.thoughts
  stats,        \* AutonomousAgent.stats
  sent,         \* the command handed to the client in the last step, if any
  last,         \* what ran in the last step (a timer callback, a return from
                \* an await, a call of start() or stop()) and how it came out
  proposed,     \* the ProposedAction handed to checkGuardrails (function harness)
  result        \* the value returned by the function under check (function harness)

vars == << state, delivered, calls, faults, config, now, running, tickTimer, timers, timerSeq, tasks,
           goalContext, currentGoal, goalProgress, thoughts, stats, sent, last,
           proposed, result >>

----------------------------------------------------------------------------
(* JavaScript values *)

\* an optional string field that is absent (a sequence no JS string equals)
Undefined == << "<undefined>" >>
\* an optional numeric field that is absent
UndefinedNum == -1
\* Number.POSITIVE_INFINITY, absorbing under addition (see AddMs)
Infinity == 2000000000
\* a nullable reference that is null
Null == "null"

UpperChars == << "A","B","C","D","E","F","G","H","I","J","K","L","M",
                 "N","O","P","Q","R","S","T","U","V","W","X","Y","Z" >>
LowerChars == << "a","b","c","d","e","f","g","h","i","j","k","l","m",
                 "n","o","p","q","r","s","t","u","v","w","x","y","z" >>

\* the lower-case letter of each upper-case letter
LowerOf ==
  [c \in { UpperChars[i] : i \in 1..Len(UpperChars) } |->
     LowerChars[CHOOSE i \in 1..Len(UpperChars) : UpperChars[i] = c]]

\* String.prototype.toLowerCase, one character
toLowerChar(c) == IF c \in DOMAIN LowerOf THEN LowerOf[c] ELSE c

\* String.prototype.toLowerCase
toLowerCase(s) == [i \in 1..Len(s) |-> toLowerChar(s[i])]

\* String.prototype.includes
includes(s, p) ==
  \E i \in 0..(Len(s) - Len(p)) : SubSeq(s, i + 1, i + Len(p)) = p

\* Array.prototype.filter is SelectSeq.  Array.prototype.find returns the
\* first of the elements that satisfy the test, here as a sequence of
\* length 0 (undefined) or 1
firstOf(hits) == IF hits = << >> THEN << >> ELSE << Head(hits) >>

\* Math.min, Math.max
Min(a, b) == IF a < b THEN a ELSE b
Max(a, b) == IF a > b THEN a ELSE b

----------------------------------------------------------------------------
(* Words the code searches for *)

W_fish     == << "f","i","s","h" >>
W_meat     == << "m","e","a","t" >>
W_bread    == << "b","r","e","a","d" >>
W_cooked   == << "c","o","o","k","e","d" >>
W_bank     == << "b","a","n","k" >>

valuablePatterns ==
  << << "r","u","n","e" >>,
     << "d","r","a","g","o","n" >>,
     << "m","y","s","t","i","c" >>,
     << "a","m","u","l","e","t" >>,
     << "r","i","n","g" >>,
     << "n","e","c","k","l","a","c","e" >>,
     << "a","n","c","i","e","n","t" >>,
     << "r","a","r","e" >>,
     << "u","n","i","q","u","e" >>,
     << "g","o","l","d" >>,
     << "c","o","i","n" >> >>

\* inventory capacity assumed by getInventorySpace
InventorySlots == 28

----------------------------------------------------------------------------
(* GameState (types.ts) as the goal and guardrail code reads it.           *)
(*   player        playerEntity is not null                                *)
(*   health, maxHealth, isDead, inventory, equipment, skills               *)
(*                 fields of playerEntity; equipment is the set of slots   *)
(*                 holding an item, a skill level may be UndefinedNum      *)
(*   nearbyEntities  the Map's values in insertion order                   *)
(*   currentTarget   an entity id or NullId                                *)
(***************************************************************************)

\* a null entity reference (a sequence no entity id equals)
NullId == << "<null>" >>

\* --- autonomy/goals.ts: helper functions ---

getHealthPercent(s) ==
  IF ~s.player \/ s.maxHealth = UndefinedNum \/ s.maxHealth = 0
  THEN 100
  ELSE ((IF s.health = UndefinedNum THEN 0 ELSE s.health) * 100) \div s.maxHealth

isFoodByNameOrCooked(item) ==
  \/ item.name # Undefined /\ includes(toLowerCase(item.name), W_fish)
  \/ item.name # Undefined /\ includes(toLowerCase(item.name), W_meat)
  \/ item.name # Undefined /\ includes(toLowerCase(item.name), W_bread)
  \/ includes(item.itemId, W_cooked)

hasFood(s) ==
  LET inv == IF s.player THEN s.inventory ELSE << >>
  IN  \E i \in 1..Len(inv) : isFoodByNameOrCooked(inv[i])

hasWeapon(s) ==
  LET equipment == IF s.player THEN s.equipment ELSE {}
  IN  "weapon" \in equipment \/ "mainhand" \in equipment

isLivingMob(e) == e.type = "mob" /\ e.alive # "false"

getNearbyMobs(s) == SelectSeq(s.nearbyEntities, isLivingMob)

isResource(e) == e.type \in {"resource", "tree", "rock", "fishing"}

getNearbyResources(s) == SelectSeq(s.nearbyEntities, isResource)

isGroundItem(e) == e.type = "item" \/ e.type = "groundItem"

getGroundItems(s) == SelectSeq(s.nearbyEntities, isGroundItem)

getSkillLevel(s, skill) ==
  IF ~s.player \/ s.skills[skill] = UndefinedNum THEN 1 ELSE s.skills[skill]

getInventorySpace(s) ==
  LET inv == IF s.player THEN s.inventory ELSE << >>
  IN  InventorySlots - Len(inv)

\* getDiversityPenalty capped at the wrong end (Math.max for Math.min)
getDiversityPenaltyUncapped(goalId, context) ==
  LET count == context.recentGoalCounts[goalId]
  IN  Max(count * 15, 45)

getDiversityPenalty(goalId, context) ==
  LET count == context.recentGoalCounts[goalId]
  IN  Min(count * 15, 45)

\* --- autonomy/goals.ts: GOAL_TEMPLATES, in catalog order ---

GOAL_TEMPLATES ==
  << "flee_danger", "eat_food", "respawn", "train_combat",
     "gather_resources", "explore_area", "collect_loot", "bank_items" >>

GoalIds == { GOAL_TEMPLATES[i] : i \in 1..Len(GOAL_TEMPLATES) }

\* currentGoal === null
NoGoal == "null"

category(g) ==
  CASE g = "flee_danger"      -> "survival"
    [] g = "eat_food"         -> "survival"
    [] g = "respawn"          -> "survival"
    [] g = "train_combat"     -> "combat"
    [] g = "gather_resources" -> "gathering"
    [] g = "explore_area"     -> "exploration"
    [] g = "collect_loot"     -> "gathering"
    [] g = "bank_items"       -> "exploration"
    [] OTHER                  -> "undefined"

isBankEntity(e) ==
  \/ e.name # Undefined /\ includes(toLowerCase(e.name), W_bank)
  \/ e.type = "bank"

isPossible(g, s) ==
  CASE g = "flee_danger" ->
         getHealthPercent(s) < 25 /\ ~(s.player /\ s.isDead)
    [] g = "eat_food" ->
         getHealthPercent(s) < 60 /\ hasFood(s)
    [] g = "respawn" ->
         s.player /\ s.isDead
    [] g = "train_combat" ->
         hasWeapon(s) /\ getHealthPercent(s) > 40 /\ Len(getNearbyMobs(s)) > 0
    [] g = "gather_resources" ->
         Len(getNearbyResources(s)) > 0 /\ getInventorySpace(s) > 0
    [] g = "explore_area" ->
         ~(s.player /\ s.isDead) /\ getHealthPercent(s) > 50
    [] g = "collect_loot" ->
         Len(getGroundItems(s)) > 0 /\ getInventorySpace(s) > 0
    [] g = "bank_items" ->
         LET hasNearbyBank ==
               \E i \in 1..Len(s.nearbyEntities) : isBankEntity(s.nearbyEntities[i])
         IN  getInventorySpace(s) < 5 /\ hasNearbyBank

isLowLevelMob(s, m) ==
  (IF m.level = UndefinedNum THEN 1 ELSE m.level) <= getSkillLevel(s, "attack") + 5

\* flee_danger's score with the first tier including its bound
scoreFleeDangerInclusive(s) ==
  LET hp == getHealthPercent(s)
  IN  IF hp <= 10 THEN 100
      ELSE IF hp < 15 THEN 95
      ELSE IF hp < 20 THEN 90
      ELSE IF hp < 25 THEN 85
      ELSE 0

scoreFleeDanger(s) ==
  LET hp == getHealthPercent(s)
  IN  IF hp < 10 THEN 100
      ELSE IF hp < 15 THEN 95
      ELSE IF hp < 20 THEN 90
      ELSE IF hp < 25 THEN 85
      ELSE 0

scoreEatFood(s) ==
  LET hp == getHealthPercent(s)
  IN  IF hp < 30 THEN 80
      ELSE IF hp < 40 THEN 60
      ELSE IF hp < 50 THEN 40
      ELSE 20

\* respawn scored like an ordinary survival goal
scoreRespawnOrdinary(s) == 80

scoreRespawn(s) == 100

\* train_combat scored from a base below explore_area's
scoreTrainCombatLowBase(s, ctx) ==
  LET s0 == 10
      s1 == IF getHealthPercent(s) > 80 THEN s0 + 10 ELSE s0
      s4 == s1 - getDiversityPenalty("train_combat", ctx)
  IN  Max(0, s4)

scoreTrainCombat(s, ctx) ==
  LET mobs == getNearbyMobs(s)
      low(m) == isLowLevelMob(s, m)
      lowLevelMobs == SelectSeq(mobs, low)
      s0 == 50
      s1 == IF getHealthPercent(s) > 80 THEN s0 + 10 ELSE s0
      s2 == IF Len(lowLevelMobs) > 3 THEN s1 + 15 ELSE s1
      s3 == IF ctx.timeSinceLastCombat < 60000 THEN s2 - 10 ELSE s2
      s4 == s3 - getDiversityPenalty("train_combat", ctx)
  IN  Max(0, s4)

scoreGatherResources(s, ctx) ==
  LET resources == getNearbyResources(s)
      s0 == 45
      s1 == IF Len(resources) > 5 THEN s0 + 15 ELSE s0
      s2 == IF getInventorySpace(s) > 20 THEN s1 + 10 ELSE s1
      s3 == IF ctx.timeSinceLastSkilling < 60000 THEN s2 - 15 ELSE s2
      s4 == s3 - getDiversityPenalty("gather_resources", ctx)
  IN  Max(0, s4)

scoreExploreArea(s, ctx) ==
  LET s0 == 30
      s1 == IF ctx.sessionDuration > 600000 THEN s0 + 15 ELSE s0
      s2 == IF Len(getNearbyMobs(s)) > 3 THEN s1 - 20 ELSE s1
      s3 == IF Len(getNearbyResources(s)) > 3 THEN s2 - 15 ELSE s2
      s4 == s3 - getDiversityPenalty("explore_area", ctx)
  IN  Max(0, s4)

scoreCollectLoot(s, ctx) ==
  LET items == getGroundItems(s)
      s0 == 55
      s1 == IF Len(items) > 5 THEN s0 + 20 ELSE s0
      s2 == IF getInventorySpace(s) < 5 THEN s1 + 10 ELSE s1
      s3 == s2 - getDiversityPenalty("collect_loot", ctx)
  IN  Max(0, s3)

scoreBankItems(s) ==
  IF getInventorySpace(s) = 0 THEN 70
  ELSE IF getInventorySpace(s) < 3 THEN 55
  ELSE 35

score(g, s, ctx) ==
  CASE g = "flee_danger"      -> scoreFleeDanger(s)
    [] g = "eat_food"         -> scoreEatFood(s)
    [] g = "respawn"          -> scoreRespawn(s)
    [] g = "train_combat"     -> scoreTrainCombat(s, ctx)
    [] g = "gather_resources" -> scoreGatherResources(s, ctx)
    [] g = "explore_area"     -> scoreExploreArea(s, ctx)
    [] g = "collect_loot"     -> scoreCollectLoot(s, ctx)
    [] g = "bank_items"       -> scoreBankItems(s)

\* isComplete(state, progress) evaluated when Date.now() = nowMs
isComplete(g, s, progress, nowMs) ==
  CASE g = "flee_danger" ->
         getHealthPercent(s) > 50 \/ (s.player /\ s.isDead)
    [] g = "eat_food" ->
         getHealthPercent(s) > 80
    [] g = "respawn" ->
         ~(s.player /\ s.isDead)
    [] g = "train_combat" ->
         progress.targetsKilled >= 5 \/ nowMs - progress.startedAt > 300000
    [] g = "gather_resources" ->
         \/ getInventorySpace(s) < 3
         \/ progress.resourcesGathered >= 10
         \/ nowMs - progress.startedAt > 300000
    [] g = "explore_area" ->
         nowMs - progress.startedAt > 120000
    [] g = "collect_loot" ->
         Len(getGroundItems(s)) = 0 \/ getInventorySpace(s) = 0
    [] g = "bank_items" ->
         ~s.bankOpen /\ getInventorySpace(s) > 20

\* Array.prototype.sort((a, b) => b.score - a.score): a stable sort, here
\* insertion of each element after the elements that do not score lower
\* an unstable sort: an element is placed before the elements of equal score
RECURSIVE insertByScoreUnstable(_, _)
insertByScoreUnstable(sorted, x) ==
  IF sorted = << >> THEN << x >>
  ELSE IF Head(sorted).score > x.score
       THEN << Head(sorted) >> \o insertByScoreUnstable(Tail(sorted), x)
       ELSE << x >> \o sorted

RECURSIVE insertByScore(_, _)
insertByScore(sorted, x) ==
  IF sorted = << >> THEN << x >>
  ELSE IF Head(sorted).score >= x.score
       THEN << Head(sorted) >> \o insertByScore(Tail(sorted), x)
       ELSE << x >> \o sorted

RECURSIVE sortByScoreDesc(_)
sortByScoreDesc(scored) ==
  IF scored = << >> THEN << >>
  ELSE insertByScore(sortByScoreDesc(SubSeq(scored, 1, Len(scored) - 1)),
                     scored[Len(scored)])

goalIsPossible(s, g) == isPossible(g, s)

\* selectGoal without the isPossible filter
selectGoalUnfiltered(s, context) ==
  LET scored == [i \in 1..Len(GOAL_TEMPLATES) |->
                   [goal |-> GOAL_TEMPLATES[i],
                    score |-> score(GOAL_TEMPLATES[i], s, context)]]
      sorted == sortByScoreDesc(scored)
  IN  sorted[1].goal

selectGoal(s, context) ==
  LET possible(g) == goalIsPossible(s, g)
      possibleGoals == SelectSeq(GOAL_TEMPLATES, possible)
      scored == [i \in 1..Len(possibleGoals) |->
                   [goal |-> possibleGoals[i],
                    score |-> score(possibleGoals[i], s, context)]]
      sorted == sortByScoreDesc(scored)
  IN  IF Len(possibleGoals) = 0 THEN NoGoal ELSE sorted[1].goal

createGoalContext ==
  [recentGoals |-> << >>,
   recentGoalCounts |-> [g \in GoalIds |-> 0],
   timeSinceLastCombat |-> Infinity,
   timeSinceLastSkilling |-> Infinity,
   sessionDuration |-> 0]

\* as updateGoalContext, with the completed goal put at the end of the list
updateGoalContextAppending(context, goalId) ==
  LET recent == context.recentGoals \o << goalId >>
      counts == [context.recentGoalCounts EXCEPT ![goalId] = @ + 1]
  IN  [context EXCEPT !.recentGoals = SubSeq(recent, 1, Min(10, Len(recent))),
                      !.recentGoalCounts = counts]

updateGoalContext(context, goalId) ==
  LET recent == << goalId >> \o context.recentGoals
      counts == [context.recentGoalCounts EXCEPT ![goalId] = @ + 1]
      u1 == [context EXCEPT !.recentGoals = SubSeq(recent, 1, Min(10, Len(recent))),
                            !.recentGoalCounts = counts]
  IN  IF category(goalId) = "combat"
      THEN [u1 EXCEPT !.timeSinceLastCombat = 0]
      ELSE IF category(goalId) \in {"skilling", "gathering"}
           THEN [u1 EXCEPT !.timeSinceLastSkilling = 0]
           ELSE u1

----------------------------------------------------------------------------
(* autonomy/guardrails.ts *)

\* a ProposedAction: a tool id and a record of parameters
Action(tool, params) == [tool |-> tool, params |-> params]

\* the parameter object {}
NoParams == [k \in {} |-> 0]

isValuableItem(itemId, itemName) ==
  LET name == toLowerCase(IF itemName # Undefined THEN itemName ELSE itemId)
  IN  \E k \in 1..Len(valuablePatterns) : includes(name, valuablePatterns[k])

getMobLevel(mob) ==
  IF mob.level # UndefinedNum THEN mob.level
  ELSE IF mob.combatLevel # UndefinedNum THEN mob.combatLevel
  ELSE 1

getPlayerCombatLevel(s) ==
  LET lvl(skill, dflt) ==
        IF ~s.player \/ s.skills[skill] = UndefinedNum THEN dflt ELSE s.skills[skill]
      attack    == lvl("attack", 1)
      strength  == lvl("strength", 1)
      defence   == lvl("defence", 1)
      hitpoints == lvl("hitpoints", 10)
  IN  (attack + strength + defence + hitpoints) \div 4

\* state.playerEntity?.inventory?.find(i => i.itemId === itemId)?.name
inventoryNameOf(s, itemId) ==
  LET inv == IF s.player THEN s.inventory ELSE << >>
      same(i) == i.itemId = itemId
      item == firstOf(SelectSeq(inv, same))
  IN  IF item = << >> THEN Undefined ELSE item[1].name

\* state.nearbyEntities.get(id), as a sequence of length 0 or 1
getEntity(s, id) ==
  LET same(e) == e.id = id
  IN  firstOf(SelectSeq(s.nearbyEntities, same))

GUARDRAILS ==
  << "no_combat_low_hp", "flee_threshold", "no_drop_valuables",
     "no_sell_valuables", "no_attack_high_level", "no_multi_combat",
     "inventory_full_warning", "respect_dialogue", "respect_bank",
     "respect_store" >>

\* the severities with respect_bank only warning
severityBankWarns(g) ==
  CASE g = "no_combat_low_hp"       -> "block"
    [] g = "flee_threshold"         -> "critical"
    [] g = "no_drop_valuables"      -> "block"
    [] g = "no_sell_valuables"      -> "warning"
    [] g = "no_attack_high_level"   -> "warning"
    [] g = "no_multi_combat"        -> "warning"
    [] g = "inventory_full_warning" -> "warning"
    [] g = "respect_dialogue"       -> "block"
    [] g = "respect_bank"           -> "warning"
    [] g = "respect_store"          -> "block"

severity(g) ==
  CASE g = "no_combat_low_hp"       -> "block"
    [] g = "flee_threshold"         -> "critical"
    [] g = "no_drop_valuables"      -> "block"
    [] g = "no_sell_valuables"      -> "warning"
    [] g = "no_attack_high_level"   -> "warning"
    [] g = "no_multi_combat"        -> "warning"
    [] g = "inventory_full_warning" -> "warning"
    [] g = "respect_dialogue"       -> "block"
    [] g = "respect_bank"           -> "block"
    [] g = "respect_store"          -> "block"

dialogueActions ==
  { "hyperscape_dialogue_respond", "hyperscape_dialogue_continue",
    "hyperscape_dialogue_close" }

\* the bank allow-list with movement let through
bankActionsWithMove ==
  { "hyperscape_bank_deposit", "hyperscape_bank_deposit_all",
    "hyperscape_bank_withdraw", "hyperscape_bank_close", "hyperscape_move" }

bankActions ==
  { "hyperscape_bank_deposit", "hyperscape_bank_deposit_all",
    "hyperscape_bank_withdraw", "hyperscape_bank_close" }

storeActions ==
  { "hyperscape_store_buy", "hyperscape_store_sell", "hyperscape_store_close" }

isTriggered(g, s, action) ==
  CASE g = "no_combat_low_hp" ->
         IF action.tool \notin {"hyperscape_attack"} THEN FALSE
         ELSE getHealthPercent(s) < 25
    [] g = "flee_threshold" ->
         getHealthPercent(s) < 15 /\ ~(s.player /\ s.isDead)
    [] g = "no_drop_valuables" ->
         IF action.tool # "hyperscape_drop" THEN FALSE
         ELSE isValuableItem(action.params.itemId,
                             inventoryNameOf(s, action.params.itemId))
    [] g = "no_sell_valuables" ->
         IF action.tool # "hyperscape_store_sell" THEN FALSE
         ELSE isValuableItem(action.params.itemId,
                             inventoryNameOf(s, action.params.itemId))
    [] g = "no_attack_high_level" ->
         IF action.tool # "hyperscape_attack" THEN FALSE
         ELSE LET target == getEntity(s, action.params.targetId)
              IN  IF target = << >> THEN FALSE
                  ELSE getMobLevel(target[1]) > getPlayerCombatLevel(s) + 10
    [] g = "no_multi_combat" ->
         IF action.tool # "hyperscape_attack" THEN FALSE
         ELSE s.currentTarget # NullId /\ s.currentTarget # action.params.targetId
    [] g = "inventory_full_warning" ->
         IF action.tool \notin {"hyperscape_gather", "hyperscape_pickup"} THEN FALSE
         ELSE Len(IF s.player THEN s.inventory ELSE << >>) >= 26
    [] g = "respect_dialogue" ->
         IF ~s.dialogueOpen THEN FALSE
         ELSE action.tool \notin dialogueActions
    [] g = "respect_bank" ->
         IF ~s.bankOpen THEN FALSE
         ELSE action.tool \notin (bankActions \cup {"hyperscape_status"})
    [] g = "respect_store" ->
         IF ~s.storeOpen THEN FALSE
         ELSE action.tool \notin (storeActions \cup {"hyperscape_status"})

\* getMessage(state): the guardrail's text, with the number it interpolates
getMessage(g, s) ==
  CASE g = "no_combat_low_hp"     -> [text |-> g, arg |-> getHealthPercent(s)]
    [] g = "no_attack_high_level" -> [text |-> g, arg |-> getPlayerCombatLevel(s)]
    [] OTHER                      -> [text |-> g, arg |-> 0]

\* the loop of checkGuardrails with only severity "block" halting the action
RECURSIVE checkFromBlockOnly(_, _, _, _)
checkFromBlockOnly(k, s, action, acc) ==
  IF k > Len(GUARDRAILS) THEN acc
  ELSE LET guardrail == GUARDRAILS[k]
       IN  IF isTriggered(guardrail, s, action)
           THEN LET message == getMessage(guardrail, s)
                IN  IF severity(guardrail) = "block"
                    THEN checkFromBlockOnly(k + 1, s, action,
                           [acc EXCEPT
                              !.violations = Append(@, [guardrail |-> guardrail,
                                                        message |-> message]),
                              !.allowed = FALSE])
                    ELSE checkFromBlockOnly(k + 1, s, action,
                           [acc EXCEPT !.warnings = Append(@, message)])
           ELSE checkFromBlockOnly(k + 1, s, action, acc)

\* the loop of checkGuardrails from guardrail number k on, continuing from
\* the result accumulated so far
RECURSIVE checkFrom(_, _, _, _)
checkFrom(k, s, action, acc) ==
  IF k > Len(GUARDRAILS) THEN acc
  ELSE LET guardrail == GUARDRAILS[k]
       IN  IF isTriggered(guardrail, s, action)
           THEN LET message == getMessage(guardrail, s)
                IN  IF severity(guardrail) = "block" \/ severity(guardrail) = "critical"
                    THEN checkFrom(k + 1, s, action,
                           [acc EXCEPT
                              !.violations = Append(@, [guardrail |-> guardrail,
                                                        message |-> message]),
                              !.allowed = FALSE])
                    ELSE checkFrom(k + 1, s, action,
                           [acc EXCEPT !.warnings = Append(@, message)])
           ELSE checkFrom(k + 1, s, action, acc)

checkGuardrails(s, action) ==
  checkFrom(1, s, action,
            [allowed |-> TRUE, violations |-> << >>, warnings |-> << >>])

----------------------------------------------------------------------------
(* autonomy/agent.ts: AutonomousAgent                                      *)
(*                                                                         *)
(* An async method runs without interruption up to an await of this.log,   *)
(* where it is suspended while the logging sink delivers the line; timers, *)
(* server packets and calls of start() and stop() run in between.  A       *)
(* suspended activation is an entry of tasks; pc names the await it stands *)
(* at.  Awaits of calls that complete without waiting for I/O resume in    *)
(* the same turn and are not suspension points.                            *)
(***************************************************************************)

NoAction == Action("null", NoParams)

\* goalProgress === null
NoProgress ==
  [goalId |-> NoGoal, startedAt |-> 0, targetsKilled |-> 0, resourcesGathered |-> 0]

\* no command was handed to the client in the last step
NoSent == [tool |-> "null"]

\* the last step ran nothing of the agent
NoEvent == [op |-> "none", outcome |-> "none"]

\* the last step ran a listener of the agent for this event of the client
Event(kind) == [op |-> "event", outcome |-> kind]

\* what the promise returned by the logging sink (sendLog) comes to
SinkOutcomes == {"resolved", "rejected"}

\* this.log without its try: what the sink throws, the log throws
logUncaught(sink) ==
  CASE sink = "resolved" -> "returns"
    [] sink = "rejected" -> "throws"

\* how an awaited this.log(message) ends: the await of sendLog stands in a
\* try whose catch writes to console.error
log(sink) ==
  CASE sink = "resolved" -> "returns"
    [] sink = "rejected" -> "returns"

\* skills whose XP drops the model delivers
XpSkills == {"attack", "woodcutting"}

createStats(nowMs) ==
  [sessionStart |-> nowMs, tickCount |-> 0, goalsCompleted |-> 0,
   xpGained |-> [k \in XpSkills |-> 0],
   mobsKilled |-> 0, resourcesGathered |-> 0, deaths |-> 0]

\* number + number where either may be Infinity
AddMs(t, d) == IF t = Infinity THEN Infinity ELSE t + d

\* JSON.stringify of a ProposedAction, and null for no action
JSONstringify(a) == [json |-> "object", tool |-> a.tool, params |-> a.params]
JSONnull == [json |-> "null"]
\* JSON.parse of a serialized ProposedAction
JSONparse(j) == [tool |-> j.tool, params |-> j.params]

isFishOrMeatOrBread(item) ==
  /\ item.name # Undefined
  /\ \/ includes(toLowerCase(item.name), W_fish)
     \/ includes(toLowerCase(item.name), W_meat)
     \/ includes(toLowerCase(item.name), W_bread)

isFishOrMeat(item) ==
  /\ item.name # Undefined
  /\ \/ includes(toLowerCase(item.name), W_fish)
     \/ includes(toLowerCase(item.name), W_meat)

mobSortLevel(e) == IF e.level = UndefinedNum THEN 1 ELSE e.level

\* Array.prototype.sort((a, b) => (a.level ?? 1) - (b.level ?? 1)): stable
RECURSIVE insertByLevel(_, _)
insertByLevel(sorted, x) ==
  IF sorted = << >> THEN << x >>
  ELSE IF mobSortLevel(Head(sorted)) <= mobSortLevel(x)
       THEN << Head(sorted) >> \o insertByLevel(Tail(sorted), x)
       ELSE << x >> \o sorted

RECURSIVE sortByLevelAsc(_)
sortByLevelAsc(mobs) ==
  IF mobs = << >> THEN << >>
  ELSE insertByLevel(sortByLevelAsc(SubSeq(mobs, 1, Len(mobs) - 1)), mobs[Len(mobs)])

hasBankInName(e) == e.name # Undefined /\ includes(toLowerCase(e.name), W_bank)

\* a move to the player's position displaced by the random draw rnd; the
\* position itself is not modelled and stands at the origin
moveAction(rnd) == Action("hyperscape_move", [x |-> rnd.dx, y |-> 0, z |-> rnd.dz])

\* selectActionForGoal(state, goal); rnd is the draw of Math.random()
selectActionForGoal(s, g, rnd) ==
  LET nearbyMobs == SelectSeq(s.nearbyEntities, isLivingMob)
      nearbyResources == SelectSeq(s.nearbyEntities, isResource)
      groundItems == SelectSeq(s.nearbyEntities, isGroundItem)
      inv == IF s.player THEN s.inventory ELSE << >>
  IN  CASE g = "flee_danger" -> Action("hyperscape_home_teleport", NoParams)
        [] g = "eat_food" ->
             LET food == firstOf(SelectSeq(inv, isFishOrMeatOrBread))
             IN  IF food # << >>
                 THEN Action("hyperscape_use_item", [itemId |-> food[1].itemId])
                 ELSE NoAction
        [] g = "respawn" -> Action("hyperscape_respawn", NoParams)
        [] g = "train_combat" ->
             IF Len(nearbyMobs) > 0
             THEN Action("hyperscape_attack",
                         [targetId |-> sortByLevelAsc(nearbyMobs)[1].id])
             ELSE NoAction
        [] g = "gather_resources" ->
             IF Len(nearbyResources) > 0
             THEN Action("hyperscape_gather", [resourceId |-> nearbyResources[1].id])
             ELSE NoAction
        [] g = "collect_loot" ->
             IF Len(groundItems) > 0
             THEN Action("hyperscape_pickup", [itemId |-> groundItems[1].id])
             ELSE NoAction
        [] g = "explore_area" -> moveAction(rnd)
        [] g = "bank_items" ->
             IF s.bankOpen THEN Action("hyperscape_bank_deposit_all", NoParams)
             ELSE LET bankNpc == firstOf(SelectSeq(s.nearbyEntities, hasBankInName))
                  IN  IF bankNpc # << >>
                      THEN Action("hyperscape_npc_interact",
                                  [npcId |-> bankNpc[1].id, action |-> "bank"])
                      ELSE NoAction
        [] OTHER -> NoAction

\* (health ?? 0) / (maxHealth ?? 1) * 100 < 25 in getAlternativeAction; a
\* maxHealth of 0 gives Infinity or NaN, which is not below 25
alternativeHpBelow25(s) ==
  LET health == IF ~s.player \/ s.health = UndefinedNum THEN 0 ELSE s.health
      maxHealth == IF ~s.player \/ s.maxHealth = UndefinedNum THEN 1 ELSE s.maxHealth
  IN  maxHealth # 0 /\ health * 100 < 25 * maxHealth

\* getAlternativeAction without its health branch
getAlternativeActionUiOnly(s, guardrailResult) ==
  IF s.dialogueOpen THEN Action("hyperscape_dialogue_continue", NoParams)
  ELSE IF s.bankOpen THEN Action("hyperscape_bank_close", NoParams)
  ELSE IF s.storeOpen THEN Action("hyperscape_store_close", NoParams)
  ELSE NoAction

getAlternativeAction(s, guardrailResult) ==
  LET inv == IF s.player THEN s.inventory ELSE << >>
      food == firstOf(SelectSeq(inv, isFishOrMeat))
  IN  IF alternativeHpBelow25(s)
      THEN IF food # << >>
           THEN Action("hyperscape_use_item", [itemId |-> food[1].itemId])
           ELSE Action("hyperscape_home_teleport", NoParams)
      ELSE IF s.dialogueOpen THEN Action("hyperscape_dialogue_continue", NoParams)
      ELSE IF s.bankOpen THEN Action("hyperscape_bank_close", NoParams)
      ELSE IF s.storeOpen THEN Action("hyperscape_store_close", NoParams)
      ELSE NoAction

\* think(state) for the active goal cg and the derived action; by tells
\* where thought.action comes from
think(s, cg, action, nowMs) ==
  LET check == checkGuardrails(s, action)
      alt == getAlternativeAction(s, check)
  IN  IF cg = NoGoal \/ action = NoAction
      THEN [timestamp |-> nowMs, goal |-> cg, action |-> JSONnull,
            warnings |-> << >>, by |-> "none"]
      ELSE IF check.allowed
      THEN [timestamp |-> nowMs, goal |-> cg, action |-> JSONstringify(action),
            warnings |-> check.warnings, by |-> "goal"]
      ELSE [timestamp |-> nowMs, goal |-> cg,
            action |-> IF alt # NoAction THEN JSONstringify(alt) ELSE JSONnull,
            warnings |-> [i \in 1..Len(check.violations) |-> check.violations[i].message],
            by |-> "fallback"]

\* the thought log keeps its last 50 entries
ThoughtLimit == 50

\* entries.slice(0, n)
keepFirst(entries, n) ==
  IF Len(entries) > n THEN SubSeq(entries, 1, n) ELSE entries

\* entries.slice(-n)
keepLast(entries, n) ==
  IF Len(entries) > n THEN SubSeq(entries, Len(entries) - n + 1, Len(entries))
  ELSE entries

\* entries.slice(start): a negative start counts from the end and stops at the
\* first entry, a start past the end gives the empty array
sliceFrom(entries, start) ==
  LET len == Len(entries)
      k   == IF start < 0 THEN Max(len + start, 0) ELSE Min(start, len)
  IN  SubSeq(entries, k + 1, len)

\* getThoughts(limit): this.thoughts.slice(-limit)
getThoughts(entries, limit) == sliceFrom(entries, -limit)

\* this.thoughts.push(thought) and the trim that follows it
pushThought(entries, thought) ==
  LET pushed == Append(entries, thought)
  IN  IF Len(pushed) > ThoughtLimit THEN keepLast(pushed, ThoughtLimit) ELSE pushed

\* what the client method called by executeAction does to client.state;
\* threw tells that sendPacket raised an exception.  attack writes the target
\* before it sends, the close methods clear their flag after they have sent
clientEffect(s, a, threw) ==
  CASE a.tool = "hyperscape_attack"         -> [s EXCEPT !.currentTarget = a.params.targetId]
    [] a.tool = "hyperscape_bank_close"     -> [s EXCEPT !.bankOpen = @ /\ threw]
    [] a.tool = "hyperscape_store_close"    -> [s EXCEPT !.storeOpen = @ /\ threw]
    [] a.tool = "hyperscape_dialogue_close" -> [s EXCEPT !.dialogueOpen = @ /\ threw]
    [] OTHER                                -> s

----------------------------------------------------------------------------
(* Game data the checks draw their inputs from *)

Digits == << "1","2","3","4","5","6","7","8","9" >>

Item(itemId, name) == [itemId |-> itemId, name |-> name]

I_fish    == Item(<< "f","1" >>, << "R","a","w"," ","F","i","s","h" >>)
I_bread   == Item(<< "b","1" >>, << "B","r","e","a","d" >>)
I_cooked  == Item(<< "c","o","o","k","e","d","_","x" >>, Undefined)
I_logs    == Item(<< "l","o","g" >>, << "L","o","g","s" >>)
\* id names a valuable, the inventory name does not
I_blade   == Item(<< "r","u","n","e","_","s","w" >>, << "B","l","a","d","e" >>)
\* the inventory name names a valuable, in capitals
I_ring    == Item(<< "i","7" >>, << "G","O","L","D"," ","R","i","n","g" >>)
\* id names a valuable, no name in the inventory
I_amulet  == Item(<< "A","m","u","l","e","t","9" >>, Undefined)

\* n filler items
Fill(n) == [i \in 1..n |-> I_logs]

Entity(id, type, name, level, alive) ==
  [id |-> id, type |-> type, name |-> name, level |-> level,
   alive |-> alive, combatLevel |-> UndefinedNum]

\* n entities of one type with ids <prefix>1 .. <prefix>n
Group(prefix, type, n, level) ==
  [i \in 1..n |-> Entity(<< prefix, Digits[i] >>, type, Undefined, level, "undefined")]

E_banker == Entity(<< "n","1" >>, "npc", << "B","a","n","k","e","r" >>, UndefinedNum, "undefined")
E_booth  == Entity(<< "k","1" >>, "bank", Undefined, UndefinedNum, "undefined")
E_corpse == Entity(<< "d","1" >>, "mob", << "R","a","t" >>, 1, "false")
\* a mob whose level arrives in combatLevel only
E_elite  == [Entity(<< "x","1" >>, "mob", << "O","g","r","e" >>, UndefinedNum, "true")
               EXCEPT !.combatLevel = 50]

Skills(a, h) == [attack |-> a, strength |-> a, defence |-> a, hitpoints |-> h]

\* the GameState of a client whose playerEntity is present
Game(health, maxHealth, isDead, inventory, equipment, skills, entities, bankOpen, dialogueOpen, storeOpen, currentTarget) ==
  [connected |-> TRUE, player |-> TRUE,
   health |-> health, maxHealth |-> maxHealth, isDead |-> isDead,
   inventory |-> inventory, equipment |-> equipment, skills |-> skills,
   nearbyEntities |-> entities,
   bankOpen |-> bankOpen, dialogueOpen |-> dialogueOpen, storeOpen |-> storeOpen,
   currentTarget |-> currentTarget]

\* the GameState of a connected client before the player entity arrives
\* (client.ts, initial state: playerEntity null, all flags false)
NoPlayerGame(entities) ==
  [connected |-> TRUE, player |-> FALSE,
   health |-> UndefinedNum, maxHealth |-> UndefinedNum, isDead |-> FALSE,
   inventory |-> << >>, equipment |-> {}, skills |-> Skills(UndefinedNum, UndefinedNum),
   nearbyEntities |-> entities,
   bankOpen |-> FALSE, dialogueOpen |-> FALSE, storeOpen |-> FALSE,
   currentTarget |-> NullId]

\* the harness has not applied the function yet
NotRun == [ran |-> FALSE]

----------------------------------------------------------------------------
(* The agent and the client as a state machine *)

\* timers created in one behaviour
MaxTimers == 3
\* activations suspended at the same time
MaxTasks == 2
\* steps of the clock in one behaviour
MaxElapse == 3
\* server packets handled in one behaviour
MaxPackets == 2
\* calls of start() and stop() in one behaviour
MaxCalls == 3

\* AgentConfig after the constructor's defaults; the intervals are inputs
Configs ==
  { [tickInterval |-> 60000, maxSessionDuration |-> d, verbose |-> v] :
      d \in {60000, 180000}, v \in BOOLEAN }

Task(kind, pc, act, by) == [kind |-> kind, pc |-> pc, act |-> act, by |-> by]

\* tasks without its i-th entry
others(i) == SubSeq(tasks, 1, i - 1) \o SubSeq(tasks, i + 1, Len(tasks))

\* new AutonomousAgent(client, cfg) at time nowMs
Constructed(cfg, nowMs) ==
  /\ config = cfg
  /\ now = nowMs
  /\ running = FALSE
  /\ tickTimer = 0
  /\ timers = {}
  /\ timerSeq = 0
  /\ tasks = << >>
  /\ goalContext = createGoalContext
  /\ currentGoal = NoGoal
  /\ goalProgress = NoProgress
  /\ thoughts = << >>
  /\ stats = createStats(nowMs)
  /\ sent = NoSent
  /\ last = NoEvent

\* --- fragments of the async methods, composed by the actions below ---

\* the activation ends at an await of this.log
Suspend(rest, task, ts, tt) ==
  /\ Len(rest) < MaxTasks
  /\ tasks' = Append(rest, task)
  /\ timers' = ts
  /\ tickTimer' = tt
  /\ UNCHANGED timerSeq

\* scheduleNextTick() at the end of the activation; run is this.running
ScheduleNextTick(rest, run, ts, tt) ==
  /\ tasks' = rest
  /\ IF run
     THEN /\ timerSeq < MaxTimers
          /\ timerSeq' = timerSeq + 1
          /\ timers' = ts \cup { [id |-> timerSeq + 1, due |-> now + config.tickInterval] }
          /\ tickTimer' = timerSeq + 1
     ELSE /\ timers' = ts
          /\ tickTimer' = tt
          /\ UNCHANGED timerSeq

\* the activation ends without reaching scheduleNextTick
EndTask(rest, ts, tt) ==
  /\ tasks' = rest
  /\ timers' = ts
  /\ tickTimer' = tt
  /\ UNCHANGED timerSeq

\* the switch of executeAction: the client method is called, and threw
\* tells that it raised an exception, which it can where sendPacket gets as
\* far as packing and sending (the socket is open)
Dispatch(a, by, threw) ==
  /\ threw => state.connected
  /\ state' = clientEffect(state, a, threw)
  /\ sent' = [tool |-> a.tool, params |-> a.params, pre |-> state, by |-> by,
              threw |-> threw]

\* an exception of the client method is caught where the command is the
\* action of a thought (the try of executeThoughtAction); the respawn of the
\* death check and randomMove are called outside of any try
caught(by) == by \in {"goal", "fallback"}

\* a tick that goes on to its goal logic after the client method was called
AfterDispatchGoingOn(rest, by, threw, ts, tt) ==
  Suspend(rest, Task("tick", "newgoal_log", NoAction, "none"), ts, tt)

\* the rest of the timer callback after the client method was called: an
\* exception that is not caught rejects tick() and ends the callback before
\* its scheduleNextTick()
AfterDispatch(rest, by, threw, ts, tt) ==
  IF threw /\ ~caught(by)
  THEN EndTask(rest, ts, tt)
  ELSE ScheduleNextTick(rest, running, ts, tt)

\* what the sink and the transport of this run can come to
sinkOutcomes == IF faults THEN SinkOutcomes ELSE {"resolved"}
throwOutcomes == IF faults THEN BOOLEAN ELSE {FALSE}

\* the last step was a timer callback
Fired == [op |-> "timer", outcome |-> "fired"]

\* the last step went on from an await of this.log whose sink came to sink
Returned(sink) == [op |-> "log", outcome |-> sink]

\* the last step was a call of start() or stop()
Called(op, outcome) == [op |-> op, outcome |-> outcome]

NoDispatch ==
  /\ UNCHANGED state
  /\ sent' = NoSent

\* executeAction(tool, params), then the rest of the timer callback
ExecuteAction(rest, a, by, ts, tt) ==
  IF config.verbose
  THEN NoDispatch /\ Suspend(rest, Task("tick", "action_log", a, by), ts, tt)
  ELSE \E threw \in throwOutcomes :
         Dispatch(a, by, threw) /\ AfterDispatch(rest, by, threw, ts, tt)

\* the draws of Math.random(), as displacements: explore_area moves 10 to
\* 30 units, randomMove 5 to 20
ExploreDraws == { [dx |-> 0, dz |-> -29] }
RandomDraws  == { [dx |-> 5, dz |-> 0], [dx |-> 0, dz |-> -19] }

\* tick() from "Generate thinking and action" on (think, push, trim,
\* executeThoughtAction), cg being this.currentGoal
ThinkAndAct(rest, cg, ts, tt) ==
  \E rnd \in ExploreDraws :
    LET action == selectActionForGoal(state, cg, rnd)
        thought == think(state, cg, action, now)
    IN  /\ thoughts' = pushThought(thoughts,
                                   [timestamp |-> thought.timestamp,
                                    goal |-> thought.goal,
                                    action |-> thought.action,
                                    warnings |-> thought.warnings])
        /\ IF thought.action # JSONnull
           THEN ExecuteAction(rest, JSONparse(thought.action), thought.by, ts, tt)
           ELSE NoDispatch /\ ScheduleNextTick(rest, running, ts, tt)

\* the goal selection of tick() without the progress record of the new goal
SelectAndOnWithoutProgress(rest, ctx, cg, gp, ts, tt) ==
  IF cg = NoGoal
  THEN LET g == selectGoal(state, ctx)
       IN  /\ currentGoal' = g
           /\ goalProgress' = gp
           /\ UNCHANGED thoughts
           /\ NoDispatch
           /\ Suspend(rest,
                      Task("tick", IF g # NoGoal THEN "newgoal_log" ELSE "nogoal_log",
                           NoAction, "none"),
                      ts, tt)
  ELSE /\ currentGoal' = cg
       /\ goalProgress' = gp
       /\ ThinkAndAct(rest, cg, ts, tt)

\* tick() from "Select new goal if needed" on; cg and gp are the active
\* goal and its progress, ctx the goal context at this point
SelectAndOn(rest, ctx, cg, gp, ts, tt) ==
  IF cg = NoGoal
  THEN LET g == selectGoal(state, ctx)
       IN  /\ currentGoal' = g
           /\ goalProgress' = IF g # NoGoal
                              THEN [goalId |-> g, startedAt |-> now,
                                    targetsKilled |-> 0, resourcesGathered |-> 0]
                              ELSE gp
           /\ UNCHANGED thoughts
           /\ NoDispatch
           /\ Suspend(rest,
                      Task("tick", IF g # NoGoal THEN "newgoal_log" ELSE "nogoal_log",
                           NoAction, "none"),
                      ts, tt)
  ELSE /\ currentGoal' = cg
       /\ goalProgress' = gp
       /\ ThinkAndAct(rest, cg, ts, tt)

\* the timing update with sessionDuration counted in tick intervals
tickTimingCounted(ctx, st, cfg, nowMs) ==
  [ctx EXCEPT !.sessionDuration = @ + cfg.tickInterval,
              !.timeSinceLastCombat = AddMs(@, cfg.tickInterval),
              !.timeSinceLastSkilling = AddMs(@, cfg.tickInterval)]

\* goalContext after the timing update at the top of tick()
tickTiming(ctx, st, cfg, nowMs) ==
  [ctx EXCEPT !.sessionDuration = nowMs - st.sessionStart,
              !.timeSinceLastCombat = AddMs(@, cfg.tickInterval),
              !.timeSinceLastSkilling = AddMs(@, cfg.tickInterval)]

\* the session timeout check of tick(), without the tick that falls on the
\* ceiling
sessionExpiredStrictly(ctx, cfg) == ctx.sessionDuration > cfg.maxSessionDuration

\* the session timeout check of tick()
sessionExpired(ctx, cfg) == ctx.sessionDuration >= cfg.maxSessionDuration

\* the command of the death check of tick(), dispatched as another command
respawnActionAsTeleport == Action("hyperscape_home_teleport", NoParams)

\* executeAction("hyperscape_respawn", {}) in the death check of tick()
respawnAction == Action("hyperscape_respawn", NoParams)

\* stop() up to its first await: the timer in tickTimer is cleared
clearedTimers == { t \in timers : t.id # tickTimer }

\* --- the timer callback: await this.tick(); this.scheduleNextTick() ---

\* the callback runs while the agent is not running: tick() returns at once
TimerFiresStopped ==
  \E t \in timers :
    /\ now >= t.due
    /\ last' = Fired
    /\ ~running
    /\ NoDispatch
    /\ ScheduleNextTick(tasks, FALSE, timers \ {t}, tickTimer)
    /\ UNCHANGED << delivered, calls, faults, config, now, running, goalContext, currentGoal, goalProgress,
                    thoughts, stats, proposed, result >>

\* the session has reached its maximal duration
TimerFiresTimeout ==
  \E t \in timers :
    /\ now >= t.due
    /\ last' = Fired
    /\ running
    /\ LET ctx == tickTiming(goalContext, stats, config, now)
       IN  /\ sessionExpired(ctx, config)
           /\ goalContext' = ctx
    /\ stats' = [stats EXCEPT !.tickCount = @ + 1]
    /\ NoDispatch
    /\ Suspend(tasks, Task("tick", "timeout_log", NoAction, "none"), timers \ {t}, tickTimer)
    /\ UNCHANGED << delivered, calls, faults, config, now, running, currentGoal, goalProgress, thoughts,
                    proposed, result >>

\* the player is dead: respawn
TimerFiresDead ==
  \E t \in timers :
    /\ now >= t.due
    /\ last' = Fired
    /\ running
    /\ LET ctx == tickTiming(goalContext, stats, config, now)
       IN  /\ ~sessionExpired(ctx, config)
           /\ goalContext' = ctx
    /\ state.player /\ state.isDead
    /\ stats' = [stats EXCEPT !.tickCount = @ + 1]
    /\ ExecuteAction(tasks, respawnAction, "respawn", timers \ {t}, tickTimer)
    /\ UNCHANGED << delivered, calls, faults, config, now, running, currentGoal, goalProgress, thoughts,
                    proposed, result >>

\* the active goal is complete
TimerFiresComplete ==
  \E t \in timers :
    /\ now >= t.due
    /\ last' = Fired
    /\ running
    /\ LET ctx == tickTiming(goalContext, stats, config, now)
       IN  /\ ~sessionExpired(ctx, config)
           /\ goalContext' = ctx
    /\ ~(state.player /\ state.isDead)
    /\ currentGoal # NoGoal /\ goalProgress # NoProgress
    /\ isComplete(currentGoal, state, goalProgress, now)
    /\ stats' = [stats EXCEPT !.tickCount = @ + 1]
    /\ NoDispatch
    /\ Suspend(tasks, Task("tick", "complete_log", NoAction, "none"), timers \ {t}, tickTimer)
    /\ UNCHANGED << delivered, calls, faults, config, now, running, currentGoal, goalProgress, thoughts,
                    proposed, result >>

\* no goal is complete: select one if none is active, think and act
TimerFiresGoal ==
  \E t \in timers :
    /\ now >= t.due
    /\ last' = Fired
    /\ running
    /\ ~(state.player /\ state.isDead)
    /\ ~(/\ currentGoal # NoGoal /\ goalProgress # NoProgress
         /\ isComplete(currentGoal, state, goalProgress, now))
    /\ stats' = [stats EXCEPT !.tickCount = @ + 1]
    /\ LET ctx == tickTiming(goalContext, stats, config, now)
       IN  /\ ~sessionExpired(ctx, config)
           /\ goalContext' = ctx
           /\ SelectAndOn(tasks, ctx, currentGoal, goalProgress, timers \ {t}, tickTimer)
    /\ UNCHANGED << delivered, calls, faults, config, now, running, proposed, result >>

\* --- a suspended activation goes on from its await of this.log ---

\* an exception leaves the activation: the awaited this.log threw, or the
\* activation read a property of null
Throws(i) ==
  /\ NoDispatch
  /\ EndTask(others(i), timers, tickTimer)
  /\ UNCHANGED << delivered, calls, faults, config, now, running, goalContext, currentGoal, goalProgress,
                  thoughts, stats, proposed, result >>

\* what a suspended activation does when its this.log has returned, up to
\* its next await of this.log or to its end

\* tick after "Session duration limit reached": await this.stop(), which
\* runs up to its first await
AfterTimeoutLog(i) ==
  /\ NoDispatch
  /\ IF running
     THEN /\ running' = FALSE
          /\ Suspend(others(i), Task("tick", "stop_logs", NoAction, "none"),
                     clearedTimers, 0)
     ELSE /\ UNCHANGED running
          /\ ScheduleNextTick(others(i), FALSE, timers, tickTimer)
  /\ UNCHANGED << delivered, calls, faults, config, now, goalContext, currentGoal, goalProgress,
                  thoughts, stats, proposed, result >>

\* stop() after "Autonomous agent stopped" and logStats(): it returns, and
\* where tick() called it the timer callback goes on to scheduleNextTick()
AfterStopLogs(i) ==
  /\ NoDispatch
  /\ IF tasks[i].kind = "tick"
     THEN ScheduleNextTick(others(i), running, timers, tickTimer)
     ELSE EndTask(others(i), timers, tickTimer)
  /\ UNCHANGED << delivered, calls, faults, config, now, running, goalContext, currentGoal,
                  goalProgress, thoughts, stats, proposed, result >>

\* tick after "Goal complete": the context is updated, the goal cleared and
\* a new goal selected; this.currentGoal.id throws if another activation has
\* cleared the goal
AfterCompleteLog(i) ==
  IF currentGoal # NoGoal
  THEN /\ stats' = [stats EXCEPT !.goalsCompleted = @ + 1]
       /\ LET ctx == updateGoalContext(goalContext, currentGoal)
          IN  /\ goalContext' = ctx
              /\ SelectAndOn(others(i), ctx, NoGoal, NoProgress, timers, tickTimer)
       /\ UNCHANGED << delivered, calls, faults, config, now, running, proposed, result >>
  ELSE Throws(i)

\* tick after "New goal": think and act
AfterNewGoalLog(i) ==
  /\ ThinkAndAct(others(i), currentGoal, timers, tickTimer)
  /\ UNCHANGED << delivered, calls, faults, config, now, running, goalContext, currentGoal,
                  goalProgress, stats, proposed, result >>

\* tick after "No suitable goals available": randomMove(state)
AfterNoGoalLog(i) ==
  /\ \E rnd \in RandomDraws, threw \in throwOutcomes :
       /\ Dispatch(moveAction(rnd), "random", threw)
       /\ AfterDispatch(others(i), "random", threw, timers, tickTimer)
  /\ UNCHANGED << delivered, calls, faults, config, now, running, goalContext, currentGoal,
                  goalProgress, thoughts, stats, proposed, result >>

\* executeAction after its "Action:" line: the client method is called
AfterActionLog(i) ==
  /\ \E threw \in throwOutcomes :
       /\ Dispatch(tasks[i].act, tasks[i].by, threw)
       /\ AfterDispatch(others(i), tasks[i].by, threw, timers, tickTimer)
  /\ UNCHANGED << delivered, calls, faults, config, now, running, goalContext, currentGoal,
                  goalProgress, thoughts, stats, proposed, result >>

\* start() after its logs: scheduleNextTick()
AfterStartLogs(i) ==
  /\ NoDispatch
  /\ ScheduleNextTick(others(i), running, timers, tickTimer)
  /\ UNCHANGED << delivered, calls, faults, config, now, running, goalContext, currentGoal,
                  goalProgress, thoughts, stats, proposed, result >>

\* the suspended activations resume: this.log returns, or throws what its
\* sink threw

ResumeTimeout ==
  \E i \in 1..Len(tasks), sink \in sinkOutcomes :
    /\ tasks[i].kind = "tick" /\ tasks[i].pc = "timeout_log"
    /\ last' = Returned(sink)
    /\ IF log(sink) = "returns" THEN AfterTimeoutLog(i) ELSE Throws(i)

ResumeTickStopped ==
  \E i \in 1..Len(tasks), sink \in sinkOutcomes :
    /\ tasks[i].kind = "tick" /\ tasks[i].pc = "stop_logs"
    /\ last' = Returned(sink)
    /\ IF log(sink) = "returns" THEN AfterStopLogs(i) ELSE Throws(i)

ResumeComplete ==
  \E i \in 1..Len(tasks), sink \in sinkOutcomes :
    /\ tasks[i].kind = "tick" /\ tasks[i].pc = "complete_log"
    /\ currentGoal # NoGoal
    /\ last' = Returned(sink)
    /\ IF log(sink) = "returns" THEN AfterCompleteLog(i) ELSE Throws(i)

\* the goal-complete branch when another activation has cleared the goal
ResumeCompleteThrows ==
  \E i \in 1..Len(tasks), sink \in sinkOutcomes :
    /\ tasks[i].kind = "tick" /\ tasks[i].pc = "complete_log"
    /\ currentGoal = NoGoal
    /\ last' = Returned(sink)
    /\ Throws(i)

ResumeNewGoal ==
  \E i \in 1..Len(tasks), sink \in sinkOutcomes :
    /\ tasks[i].kind = "tick" /\ tasks[i].pc = "newgoal_log"
    /\ last' = Returned(sink)
    /\ IF log(sink) = "returns" THEN AfterNewGoalLog(i) ELSE Throws(i)

ResumeNoGoal ==
  \E i \in 1..Len(tasks), sink \in sinkOutcomes :
    /\ tasks[i].kind = "tick" /\ tasks[i].pc = "nogoal_log"
    /\ last' = Returned(sink)
    /\ IF log(sink) = "returns" THEN AfterNoGoalLog(i) ELSE Throws(i)

ResumeAction ==
  \E i \in 1..Len(tasks), sink \in sinkOutcomes :
    /\ tasks[i].kind = "tick" /\ tasks[i].pc = "action_log"
    /\ last' = Returned(sink)
    /\ IF log(sink) = "returns" THEN AfterActionLog(i) ELSE Throws(i)

ResumeStart ==
  \E i \in 1..Len(tasks), sink \in sinkOutcomes :
    /\ tasks[i].kind = "start" /\ tasks[i].pc = "start_logs"
    /\ last' = Returned(sink)
    /\ IF log(sink) = "returns" THEN AfterStartLogs(i) ELSE Throws(i)

ResumeStop ==
  \E i \in 1..Len(tasks), sink \in sinkOutcomes :
    /\ tasks[i].kind = "stop" /\ tasks[i].pc = "stop_logs"
    /\ last' = Returned(sink)
    /\ IF log(sink) = "returns" THEN AfterStopLogs(i) ELSE Throws(i)

\* --- start() and stop() ---

\* start() finds the client connected whatever its state
clientConnectedAlways(s) == TRUE

\* this.client.state.connected in start()
clientConnected(s) == s.connected

\* start() without its check of this.running: a running agent is started
\* over, with new statistics and a new goal context
StartAlreadyRunningStartsOver ==
  /\ calls < MaxCalls
  /\ calls' = calls + 1
  /\ running
  /\ last' = Called("start", "pending")
  /\ stats' = createStats(now)
  /\ goalContext' = createGoalContext
  /\ NoDispatch
  /\ Suspend(tasks, Task("start", "start_logs", NoAction, "none"), timers, tickTimer)
  /\ UNCHANGED << delivered, faults, config, now, running, currentGoal, goalProgress, thoughts,
                  proposed, result >>

\* start() while running: "Agent already running"
StartAlreadyRunning ==
  /\ calls < MaxCalls
  /\ calls' = calls + 1
  /\ running
  /\ last' = Called("start", "returns")
  /\ NoDispatch
  /\ UNCHANGED << delivered, faults, config, now, running, tickTimer, timers, timerSeq, tasks,
                  goalContext, currentGoal, goalProgress, thoughts, stats,
                  proposed, result >>

\* start() while the client is not connected: throws
StartNotConnected ==
  /\ calls < MaxCalls
  /\ calls' = calls + 1
  /\ ~running
  /\ ~clientConnected(state)
  /\ last' = Called("start", "throws")
  /\ NoDispatch
  /\ UNCHANGED << delivered, faults, config, now, running, tickTimer, timers, timerSeq, tasks,
                  goalContext, currentGoal, goalProgress, thoughts, stats,
                  proposed, result >>

\* start() up to its first await
Start ==
  /\ calls < MaxCalls
  /\ calls' = calls + 1
  /\ ~running
  /\ clientConnected(state)
  /\ last' = Called("start", "pending")
  /\ running' = TRUE
  /\ stats' = createStats(now)
  /\ goalContext' = createGoalContext
  /\ NoDispatch
  /\ Suspend(tasks, Task("start", "start_logs", NoAction, "none"), timers, tickTimer)
  /\ UNCHANGED << delivered, faults, config, now, currentGoal, goalProgress, thoughts, proposed, result >>

\* stop() while not running: returns
StopNotRunning ==
  /\ calls < MaxCalls
  /\ calls' = calls + 1
  /\ ~running
  /\ last' = Called("stop", "returns")
  /\ NoDispatch
  /\ UNCHANGED << delivered, faults, config, now, running, tickTimer, timers, timerSeq, tasks,
                  goalContext, currentGoal, goalProgress, thoughts, stats,
                  proposed, result >>

\* stop() up to its first await
Stop ==
  /\ calls < MaxCalls
  /\ calls' = calls + 1
  /\ running
  /\ last' = Called("stop", "pending")
  /\ running' = FALSE
  /\ NoDispatch
  /\ Suspend(tasks, Task("stop", "stop_logs", NoAction, "none"), clearedTimers, 0)
  /\ UNCHANGED << delivered, faults, config, now, goalContext, currentGoal, goalProgress, thoughts,
                  stats, proposed, result >>


----------------------------------------------------------------------------
(* client.ts: the websocket and the packets of the server *)

\* client.state after new HyperscapeClient()
InitialClientState == [NoPlayerGame(<< >>) EXCEPT !.connected = FALSE]

E_player == Entity(<< "p","1" >>, "player", << "B","o","t" >>, UndefinedNum, "undefined")

\* the snapshots the server sends: the player entity and what is near it
World(health, isDead, inventory, entities) ==
  [health |-> health, isDead |-> isDead, inventory |-> inventory,
   entities |-> << E_player >> \o entities]

Worlds ==
  { World(90, FALSE, << I_fish >>, Group("m", "mob", 1, 3)),
    World(14, FALSE, << I_fish >>, << >>),
    World(40, FALSE, << >>, Group("g", "item", 1, UndefinedNum)),
    World(0, TRUE, << >>, << >>) }

\* the health values of playerState packets
LoopHealths == {14, 20, 90}

\* ws "open"
WsOpen ==
  /\ ~state.connected
  /\ state' = [state EXCEPT !.connected = TRUE]
  /\ sent' = NoSent
  /\ last' = NoEvent
  /\ UNCHANGED << delivered, calls, faults, config, now, running, tickTimer, timers, timerSeq, tasks,
                  goalContext, currentGoal, goalProgress, thoughts, stats,
                  proposed, result >>

\* ws "close": the client is disconnected, and reconnects by a later "open"
WsClose ==
  /\ state.connected
  /\ delivered < MaxPackets
  /\ delivered' = delivered + 1
  /\ state' = [state EXCEPT !.connected = FALSE]
  /\ sent' = NoSent
  /\ last' = NoEvent
  /\ UNCHANGED << calls, faults, config, now, running, tickTimer, timers, timerSeq, tasks,
                  goalContext, currentGoal, goalProgress, thoughts, stats,
                  proposed, result >>

\* a packet that changes client.state and that the agent does not listen to
Packet(next) ==
  /\ state.connected
  /\ delivered < MaxPackets
  /\ delivered' = delivered + 1
  /\ state' = next
  /\ sent' = NoSent
  /\ last' = NoEvent
  /\ UNCHANGED << calls, faults, config, now, running, tickTimer, timers, timerSeq, tasks,
                  goalContext, currentGoal, goalProgress, thoughts, stats,
                  proposed, result >>

\* handleSnapshot: the entity map is replaced; the entity with the
\* snapshot's playerId becomes playerEntity
handleSnapshot(s, w) ==
  [s EXCEPT !.player = TRUE,
            !.health = w.health, !.maxHealth = 100, !.isDead = w.isDead,
            !.inventory = w.inventory, !.equipment = {"weapon"},
            !.skills = Skills(1, 10),
            !.nearbyEntities = w.entities]

Snapshot(w) == Packet(handleSnapshot(state, w))

\* handlePlayerState: Object.assign(playerEntity, { health })
PlayerState(h) ==
  Packet(IF state.player THEN [state EXCEPT !.health = h] ELSE state)

\* handleInventoryUpdated
InventoryUpdated(items) ==
  Packet(IF state.player THEN [state EXCEPT !.inventory = items] ELSE state)

\* handleEntityRemoved
EntityRemoved(id) ==
  Packet([state EXCEPT
            !.nearbyEntities = SelectSeq(@, LAMBDA e : e.id # id),
            !.currentTarget = IF @ = id THEN NullId ELSE @])

PlayerRespawned ==
  Packet(IF state.player THEN [state EXCEPT !.isDead = FALSE] ELSE state)

\* bankOpen, bankState: handleBankState
BankState     == Packet([state EXCEPT !.bankOpen = TRUE])
BankClose     == Packet([state EXCEPT !.bankOpen = FALSE])
DialogueStart == Packet([state EXCEPT !.dialogueOpen = TRUE])
DialogueEnd   == Packet([state EXCEPT !.dialogueOpen = FALSE])
StoreOpen     == Packet([state EXCEPT !.storeOpen = TRUE])
StoreClose    == Packet([state EXCEPT !.storeOpen = FALSE])

\* deathScreen: isDead is set and "death" emitted; the agent counts it
DeathScreen ==
  /\ state.connected
  /\ delivered < MaxPackets
  /\ delivered' = delivered + 1
  /\ state' = IF state.player THEN [state EXCEPT !.isDead = TRUE] ELSE state
  /\ stats' = [stats EXCEPT !.deaths = @ + 1]
  /\ sent' = NoSent
  /\ last' = Event("death")
  /\ UNCHANGED << calls, faults, config, now, running, tickTimer, timers, timerSeq, tasks,
                  goalContext, currentGoal, goalProgress, thoughts, proposed, result >>

\* xpDrop: handleXpDrop writes the level into the player's skill if it has
\* that skill; the agent adds the xp to its statistics
XpDrop(skill, xp, level) ==
  /\ state.connected
  /\ delivered < MaxPackets
  /\ delivered' = delivered + 1
  /\ state' = IF state.player /\ skill \in DOMAIN state.skills
                 /\ state.skills[skill] # UndefinedNum
              THEN [state EXCEPT !.skills[skill] = level]
              ELSE state
  /\ stats' = [stats EXCEPT !.xpGained[skill] = @ + xp]
  /\ sent' = NoSent
  /\ last' = Event("xpDrop")
  /\ UNCHANGED << calls, faults, config, now, running, tickTimer, timers, timerSeq, tasks,
                  goalContext, currentGoal, goalProgress, thoughts, proposed, result >>

\* gatheringComplete
GatheringComplete ==
  /\ state.connected
  /\ delivered < MaxPackets
  /\ delivered' = delivered + 1
  /\ stats' = [stats EXCEPT !.resourcesGathered = @ + 1]
  /\ goalProgress' = IF goalProgress # NoProgress
                     THEN [goalProgress EXCEPT !.resourcesGathered = @ + 1]
                     ELSE goalProgress
  /\ sent' = NoSent
  /\ last' = Event("gatheringComplete")
  /\ UNCHANGED << state, calls, faults, config, now, running, tickTimer, timers, timerSeq, tasks,
                  goalContext, currentGoal, thoughts, proposed, result >>

\* combatDamageDealt, with a listener that counts every hit as a kill
DamageDealtCountingHits(killed) ==
  /\ state.connected
  /\ delivered < MaxPackets
  /\ delivered' = delivered + 1
  /\ stats' = [stats EXCEPT !.mobsKilled = @ + 1]
  /\ goalProgress' = IF killed /\ goalProgress # NoProgress
                     THEN [goalProgress EXCEPT !.targetsKilled = @ + 1]
                     ELSE goalProgress
  /\ sent' = NoSent
  /\ last' = Event(IF killed THEN "killed" ELSE "damage")
  /\ UNCHANGED << state, calls, faults, config, now, running, tickTimer, timers, timerSeq, tasks,
                  goalContext, currentGoal, thoughts, proposed, result >>

\* combatDamageDealt
DamageDealt(killed) ==
  /\ state.connected
  /\ delivered < MaxPackets
  /\ delivered' = delivered + 1
  /\ stats' = IF killed THEN [stats EXCEPT !.mobsKilled = @ + 1] ELSE stats
  /\ goalProgress' = IF killed /\ goalProgress # NoProgress
                     THEN [goalProgress EXCEPT !.targetsKilled = @ + 1]
                     ELSE goalProgress
  /\ sent' = NoSent
  /\ last' = Event(IF killed THEN "killed" ELSE "damage")
  /\ UNCHANGED << state, calls, faults, config, now, running, tickTimer, timers, timerSeq, tasks,
                  goalContext, currentGoal, thoughts, proposed, result >>

\* time passes until the next timer is due
Elapse ==
  /\ now < MaxElapse * config.tickInterval
  /\ timers # {}
  /\ \A t \in timers : now < t.due
  /\ now' = now + config.tickInterval
  /\ sent' = NoSent
  /\ last' = NoEvent
  /\ UNCHANGED << state, delivered, calls, faults, config, running, tickTimer, timers, timerSeq, tasks,
                  goalContext, currentGoal, goalProgress, thoughts, stats,
                  proposed, result >>

\* the number of delays of the clock within one tick interval
MaxLate == 1

\* time passes while an activation waits for the log sink or before the
\* event loop runs a timer that is due: Date.now() moves on by 250 ms
Delay ==
  /\ now % config.tickInterval < MaxLate * 250
  /\ timers # {} \/ tasks # << >>
  /\ now' = now + 250
  /\ sent' = NoSent
  /\ last' = NoEvent
  /\ UNCHANGED << state, delivered, calls, faults, config, running, tickTimer, timers, timerSeq, tasks,
                  goalContext, currentGoal, goalProgress, thoughts, stats,
                  proposed, result >>

----------------------------------------------------------------------------
(* Specification Spec: the agent on a client whose transport and logging    *)
(* sink do not fail, the server and the clock                              *)

Init ==
  /\ state = InitialClientState
  /\ delivered = 0
  /\ calls = 0
  /\ faults = FALSE
  /\ \E cfg \in Configs : Constructed(cfg, 0)
  /\ proposed = NotRun
  /\ result = NotRun

TimerFires ==
  \/ TimerFiresStopped
  \/ TimerFiresTimeout
  \/ TimerFiresDead
  \/ TimerFiresComplete
  \/ TimerFiresGoal

Resume ==
  \/ ResumeTimeout
  \/ ResumeTickStopped
  \/ ResumeComplete
  \/ ResumeCompleteThrows
  \/ ResumeNewGoal
  \/ ResumeNoGoal
  \/ ResumeAction
  \/ ResumeStart
  \/ ResumeStop

Calls ==
  \/ StartAlreadyRunning
  \/ StartNotConnected
  \/ Start
  \/ StopNotRunning
  \/ Stop

Server ==
  \/ WsOpen
  \/ \E w \in Worlds : Snapshot(w)
  \/ \E h \in LoopHealths : PlayerState(h)
  \/ InventoryUpdated(<< >>)
  \/ EntityRemoved(<< "g","1" >>)
  \/ DeathScreen
  \/ PlayerRespawned
  \/ BankState
  \/ BankClose
  \/ DialogueStart
  \/ DialogueEnd
  \/ StoreOpen
  \/ StoreClose
  \/ \E skill \in XpSkills : XpDrop(skill, 1, 1)
  \/ GatheringComplete
  \/ \E killed \in BOOLEAN : DamageDealt(killed)

Next ==
  \/ TimerFires
  \/ Resume
  \/ Calls
  \/ Server
  \/ Elapse

Spec == Init /\ [][Next]_vars

----------------------------------------------------------------------------
(* Specification SpecSession: the agent on a client whose transport and    *)
(* logging sink can fail and whose connection can close, with the          *)
(* snapshots of the server and the clock                                   *)

InitSession ==
  /\ state = InitialClientState
  /\ delivered = 0
  /\ calls = 0
  /\ faults = TRUE
  /\ \E cfg \in Configs : Constructed(cfg, 0)
  /\ proposed = NotRun
  /\ result = NotRun

ServerSession ==
  \/ WsOpen
  \/ WsClose
  \/ \E w \in Worlds : Snapshot(w)
  \/ EntityRemoved(<< "g","1" >>)

NextSession ==
  \/ TimerFires
  \/ Resume
  \/ Calls
  \/ ServerSession
  \/ Elapse

SpecSession == InitSession /\ [][NextSession]_vars

----------------------------------------------------------------------------
(* Specification SpecTiming: the agent, the snapshots of the server and a   *)
(* clock that also moves between the moments at which timers are due       *)

ServerTiming ==
  \/ WsOpen
  \/ \E w \in Worlds : Snapshot(w)
  \/ EntityRemoved(<< "g","1" >>)

NextTiming ==
  \/ TimerFires
  \/ Resume
  \/ Calls
  \/ ServerTiming
  \/ Elapse
  \/ Delay

SpecTiming == Init /\ [][NextTiming]_vars

----------------------------------------------------------------------------
(* Specification SpecGoals: selectGoal and score applied to bounded inputs *)

GoalHealths == {9, 10, 19, 24, 25, 40, 41, 51, 81}

GoalInventories ==
  { << >>, << I_fish >>,
    << I_cooked >>,                             \* food by its item id only
    Fill(InventorySlots - 4),                   \* 4 slots free
    Fill(InventorySlots - 3) \o << I_bread >>,  \* 2 slots free
    Fill(InventorySlots) }                      \* full

GoalEntities ==
  { << >>,
    Group("m", "mob", 1, 3),
    Group("m", "mob", 4, 3),
    << E_corpse >>,
    Group("t", "tree", 1, UndefinedNum),
    Group("r", "rock", 6, UndefinedNum),
    Group("g", "item", 6, UndefinedNum) \o << E_booth >>,
    Group("m", "mob", 4, 3) \o Group("r", "fishing", 4, UndefinedNum),
    Group("m", "mob", 4, 3) \o Group("g", "groundItem", 1, UndefinedNum)
      \o << E_banker >>,
    Group("t", "resource", 1, UndefinedNum) \o Group("m", "mob", 1, 3)
      \o Group("g", "item", 1, UndefinedNum) \o << E_booth >> }

GoalStates ==
  { Game(h, 100, d, inv, eq, Skills(1, 10), ents, FALSE, FALSE, FALSE, NullId) :
      h \in GoalHealths, d \in BOOLEAN, inv \in GoalInventories,
      eq \in { {}, {"weapon"} }, ents \in GoalEntities }
  \cup
  { Game(0, 0, d, << I_fish >>, {"mainhand"}, Skills(UndefinedNum, UndefinedNum),
         ents, FALSE, FALSE, FALSE, NullId) :
      d \in BOOLEAN, ents \in GoalEntities }
  \cup
  { NoPlayerGame(ents) : ents \in GoalEntities }

\* the goal context after the goals of a sequence have been completed in order
RECURSIVE contextAfter(_)
contextAfter(completed) ==
  IF completed = << >> THEN createGoalContext
  ELSE updateGoalContext(contextAfter(SubSeq(completed, 1, Len(completed) - 1)),
                         completed[Len(completed)])

Repeat(g, n) == [i \in 1..n |-> g]

GoalHistories ==
  { << >>,
    << "train_combat" >>,
    Repeat("gather_resources", 3),
    Repeat("collect_loot", 2),
    Repeat("collect_loot", 4),
    << "explore_area" >>,
    << "flee_danger", "train_combat", "explore_area", "explore_area" >>,
    << "gather_resources", "collect_loot", "train_combat", "explore_area" >> }

\* <<timeSinceLastCombat, timeSinceLastSkilling, sessionDuration>>
GoalTimes ==
  { << Infinity, 60000, 600000 >>, << 59999, 59999, 600001 >>,
    << 59999, 60000, 600001 >> }

GoalContexts ==
  { [contextAfter(h) EXCEPT !.timeSinceLastCombat = t[1],
                            !.timeSinceLastSkilling = t[2],
                            !.sessionDuration = t[3]] :
      h \in GoalHistories, t \in GoalTimes }

\* the variables of the loop, which the function specifications leave alone
loopVars == << delivered, calls, faults, config, now, running, tickTimer, timers, timerSeq, tasks,
              currentGoal, goalProgress, thoughts, stats, sent, last >>

\* an agent that was constructed and not started
Idle ==
  /\ delivered = 0
  /\ calls = 0
  /\ faults = FALSE
  /\ config \in Configs
  /\ now = 0
  /\ running = FALSE
  /\ tickTimer = 0
  /\ timers = {}
  /\ timerSeq = 0
  /\ tasks = << >>
  /\ currentGoal = NoGoal
  /\ goalProgress = NoProgress
  /\ thoughts = << >>
  /\ stats = createStats(0)
  /\ sent = NoSent
  /\ last = NoEvent

InitGoals ==
  /\ state \in GoalStates
  /\ goalContext \in GoalContexts
  /\ Idle
  /\ config.verbose = FALSE
  /\ proposed = NotRun
  /\ result = NotRun

\* the context with the completion counter of goal g set to n
withCount(context, g, n) ==
  [context EXCEPT !.recentGoalCounts = [@ EXCEPT ![g] = n]]

RunSelectGoal ==
  /\ result = NotRun
  /\ result' = [ran |-> TRUE,
                goal |-> selectGoal(state, goalContext),
                scores |-> [g \in GoalIds |-> score(g, state, goalContext)],
                fresh |-> [g \in GoalIds |->
                             score(g, state, withCount(goalContext, g, 0))],
                penalty |-> [g \in GoalIds |-> getDiversityPenalty(g, goalContext)],
                more |-> [g \in GoalIds |->
                            getDiversityPenalty(g,
                              withCount(goalContext, g,
                                        goalContext.recentGoalCounts[g] + 1))]]
  /\ UNCHANGED << state, goalContext, proposed, loopVars >>

SpecGoals == InitGoals /\ [][RunSelectGoal]_vars

----------------------------------------------------------------------------
(* Specification SpecGuardrails: checkGuardrails applied to bounded inputs *)

GuardHealths == {14, 15, 24, 25, 90}

GuardInventories ==
  { << >>,
    << I_bread >>,
    << I_bread, I_cooked, I_fish >>,
    << I_blade, I_ring, I_amulet, I_fish >>,
    Fill(25),
    Fill(26) }

\* mobs m1 (level 3), m2 (level 13), m3 (level 14) and a mob of combatLevel 50
GuardEntities ==
  { << >>,
    << Entity(<< "m","1" >>, "mob", Undefined, 3, "true"),
       Entity(<< "m","2" >>, "mob", Undefined, 13, "true"),
       Entity(<< "m","3" >>, "mob", Undefined, 14, "true"),
       E_elite >> }

GuardStates ==
  { Game(h, 100, d, inv, {"weapon"}, Skills(1, 10), ents, b, dl, st, ct) :
      h \in GuardHealths, d \in BOOLEAN, inv \in GuardInventories,
      ents \in GuardEntities, b \in BOOLEAN, dl \in BOOLEAN, st \in BOOLEAN,
      ct \in { NullId, << "m","1" >> } }
  \cup
  { NoPlayerGame(ents) : ents \in GuardEntities }

GuardActions ==
  { Action("hyperscape_attack", [targetId |-> id]) :
      id \in { << "m","1" >>, << "m","2" >>, << "m","3" >>, << "x","1" >>, << "z","9" >> } }
  \cup
  { Action(tool, [itemId |-> item.itemId]) :
      tool \in { "hyperscape_drop", "hyperscape_store_sell" },
      item \in { I_blade, I_ring, I_amulet, I_fish } }
  \cup
  { Action(tool, NoParams) :
      tool \in { "hyperscape_gather", "hyperscape_pickup", "hyperscape_move",
                 "hyperscape_respawn", "hyperscape_use_item",
                 "hyperscape_home_teleport", "hyperscape_npc_interact",
                 "hyperscape_status", "hyperscape_store_buy",
                 "hyperscape_store_close", "hyperscape_dialogue_respond",
                 "hyperscape_dialogue_continue", "hyperscape_dialogue_close",
                 "hyperscape_bank_deposit", "hyperscape_bank_deposit_all",
                 "hyperscape_bank_withdraw", "hyperscape_bank_close" } }

InitGuardrails ==
  /\ state \in GuardStates
  /\ proposed \in GuardActions
  /\ goalContext = createGoalContext
  /\ Idle
  /\ config.verbose = FALSE
  /\ result = NotRun

RunCheckGuardrails ==
  /\ result = NotRun
  /\ result' = [ran |-> TRUE, check |-> checkGuardrails(state, proposed)]
  /\ UNCHANGED << state, goalContext, proposed, loopVars >>

SpecGuardrails == InitGuardrails /\ [][RunCheckGuardrails]_vars

----------------------------------------------------------------------------
(* Specification SpecThoughts: the push and trim of tick() applied to
   thought logs of every length up to the limit *)

MaxPushes == 2

ThoughtGoals == { "explore_area", "train_combat" }

\* a thought without action, made at time t for goal g
ThoughtOf(t, g) ==
  [timestamp |-> t, goal |-> g, action |-> JSONnull, warnings |-> << >>]

\* the log after n ticks, one tick interval apart, that each made a thought
ThoughtLogs ==
  { [i \in 1..n |-> ThoughtOf(i * 60000, "explore_area")] : n \in 0..ThoughtLimit }

\* result.all is every thought made so far, result.pushes counts the
\* thoughts made by RunPushThought
InitThoughts ==
  /\ state = InitialClientState
  /\ goalContext = createGoalContext
  /\ delivered = 0
  /\ calls = 0
  /\ faults = FALSE
  /\ config \in Configs
  /\ config.verbose = FALSE
  /\ config.maxSessionDuration = 180000
  /\ thoughts \in ThoughtLogs
  /\ now = Len(thoughts) * 60000
  /\ running = FALSE
  /\ tickTimer = 0
  /\ timers = {}
  /\ timerSeq = 0
  /\ tasks = << >>
  /\ currentGoal = NoGoal
  /\ goalProgress = NoProgress
  /\ stats = createStats(0)
  /\ sent = NoSent
  /\ last = NoEvent
  /\ proposed = NotRun
  /\ result = [ran |-> FALSE, all |-> thoughts, pushes |-> 0]

\* a thought is made at the current time or one tick interval later, is
\* pushed and the log is trimmed
RunPushThought ==
  \E g \in ThoughtGoals, elapsed \in {0, 60000} :
    LET thought == ThoughtOf(now + elapsed, g)
    IN  /\ result.pushes < MaxPushes
        /\ now' = now + elapsed
        /\ thoughts' = pushThought(thoughts, thought)
        /\ result' = [ran |-> TRUE, all |-> Append(result.all, thought),
                      pushes |-> result.pushes + 1]
        /\ UNCHANGED << state, delivered, calls, faults, config, running,
                        tickTimer, timers, timerSeq, tasks, goalContext,
                        currentGoal, goalProgress, stats, sent, last, proposed >>

SpecThoughts == InitThoughts /\ [][RunPushThought]_vars

\* the largest limit getThoughts is called with
MaxLimit == 3

\* getThoughts(limit) is called; proposed keeps the call: its limit, the log
\* it was called on and the array it returned
RunGetThoughts ==
  \E limit \in 0..MaxLimit :
    /\ proposed' = [ran |-> TRUE, limit |-> limit, log |-> thoughts,
                    got |-> getThoughts(thoughts, limit)]
    /\ UNCHANGED << state, delivered, calls, faults, config, now, running,
                    tickTimer, timers, timerSeq, tasks, goalContext,
                    currentGoal, goalProgress, thoughts, stats, sent, last,
                    result >>

NextRead == RunPushThought \/ RunGetThoughts

\* Specification SpecRead: thoughts are pushed and the log is read
SpecRead == InitThoughts /\ [][NextRead]_vars

----------------------------------------------------------------------------
(* Specification SpecContext: updateGoalContext applied repeatedly, starting
   from createGoalContext *)

MaxCompletions == 11

CompletedGoals == { "explore_area", "train_combat" }

\* result.completed is every completed goal id, oldest first
InitContext ==
  /\ state = InitialClientState
  /\ goalContext = createGoalContext
  /\ Idle
  /\ config.verbose = FALSE
  /\ config.maxSessionDuration = 180000
  /\ proposed = NotRun
  /\ result = [ran |-> FALSE, completed |-> << >>]

RunUpdateGoalContext ==
  \E goalId \in CompletedGoals :
    /\ Len(result.completed) < MaxCompletions
    /\ goalContext' = updateGoalContext(goalContext, goalId)
    /\ result' = [ran |-> TRUE, completed |-> Append(result.completed, goalId)]
    /\ UNCHANGED << state, proposed, loopVars >>

SpecContext == InitContext /\ [][RunUpdateGoalContext]_vars

----------------------------------------------------------------------------
(* Specification SpecUpdate: updateGoalContext run on objects.  A heap maps
   the address of each object to its content; an object field that holds an
   array or an object holds its address *)

\* the heap that holds a goal context at address "context", with its array
\* at "goals", its counters at "counts" and its empty xpGained at "xp"
heapOf(context) ==
  [context |-> [recentGoals |-> "goals",
                recentGoalCounts |-> "counts",
                timeSinceLastCombat |-> context.timeSinceLastCombat,
                timeSinceLastSkilling |-> context.timeSinceLastSkilling,
                sessionDuration |-> context.sessionDuration,
                xpGained |-> "xp"],
   goals |-> context.recentGoals,
   counts |-> context.recentGoalCounts,
   xp |-> << >>]

\* the goal context held by the object at address a
contextAt(heap, a) ==
  [recentGoals |-> heap[heap[a].recentGoals],
   recentGoalCounts |-> heap[heap[a].recentGoalCounts],
   timeSinceLastCombat |-> heap[a].timeSinceLastCombat,
   timeSinceLastSkilling |-> heap[a].timeSinceLastSkilling,
   sessionDuration |-> heap[a].sessionDuration]

\* as updateGoalContextOnHeap, without the copy of recentGoalCounts: the
\* counter is written through the reference shared with the input
updateGoalContextOnHeapSharingCounts(heap, context, goalId) ==
  LET h1 == heap @@ ("updated" :> heap[context])
      recent == << goalId >> \o h1[h1[context].recentGoals]
      h2 == [h1 @@ ("goals2" :> SubSeq(recent, 1, Min(10, Len(recent))))
               EXCEPT !["updated"].recentGoals = "goals2"]
      h4 == [h2 EXCEPT ![h2["updated"].recentGoalCounts][goalId] = @ + 1]
  IN  IF category(goalId) = "combat"
      THEN [h4 EXCEPT !["updated"].timeSinceLastCombat = 0]
      ELSE IF category(goalId) \in {"skilling", "gathering"}
           THEN [h4 EXCEPT !["updated"].timeSinceLastSkilling = 0]
           ELSE h4

\* updateGoalContext(context, goalId), context being an address; the
\* returned object is at address "updated" of the resulting heap
updateGoalContextOnHeap(heap, context, goalId) ==
  LET \* const updated = { ...context }
      h1 == heap @@ ("updated" :> heap[context])
      \* updated.recentGoals = [goalId, ...context.recentGoals].slice(0, 10)
      recent == << goalId >> \o h1[h1[context].recentGoals]
      h2 == [h1 @@ ("goals2" :> SubSeq(recent, 1, Min(10, Len(recent))))
               EXCEPT !["updated"].recentGoals = "goals2"]
      \* updated.recentGoalCounts = { ...context.recentGoalCounts }
      h3 == [h2 @@ ("counts2" :> h2[h2[context].recentGoalCounts])
               EXCEPT !["updated"].recentGoalCounts = "counts2"]
      \* updated.recentGoalCounts[goalId] = (... ?? 0) + 1
      h4 == [h3 EXCEPT ![h3["updated"].recentGoalCounts][goalId] = @ + 1]
  IN  IF category(goalId) = "combat"
      THEN [h4 EXCEPT !["updated"].timeSinceLastCombat = 0]
      ELSE IF category(goalId) \in {"skilling", "gathering"}
           THEN [h4 EXCEPT !["updated"].timeSinceLastSkilling = 0]
           ELSE h4

InitUpdate ==
  /\ state = InitialClientState
  /\ goalContext \in GoalContexts
  /\ Idle
  /\ config.verbose = FALSE
  /\ config.maxSessionDuration = 180000
  /\ proposed = NotRun
  /\ result = NotRun

\* this.goalContext = updateGoalContext(this.goalContext, goalId)
RunUpdateOnHeap ==
  \E goalId \in GoalIds :
    LET before == heapOf(goalContext)
        after == updateGoalContextOnHeap(before, "context", goalId)
    IN  /\ result = NotRun
        /\ goalContext' = contextAt(after, "updated")
        /\ result' = [ran |-> TRUE, goalId |-> goalId, input |-> goalContext,
                      before |-> before, after |-> after]
        /\ UNCHANGED << state, proposed, loopVars >>

SpecUpdate == InitUpdate /\ [][RunUpdateOnHeap]_vars

----------------------------------------------------------------------------
(* Specification SpecBank: the agent next to a bank with a full inventory,  *)
(* on a server that holds the bank open until the client closes it and     *)
(* empties the inventory when deposit-all is asked for; ticks are fair     *)

\* the snapshot of a player with a full inventory next to a banker
BankWorld == World(90, FALSE, Fill(InventorySlots), << E_banker >>)

\* the action of the last thought is this action
lastThoughtIs(a) ==
  /\ thoughts # << >>
  /\ thoughts[Len(thoughts)].action = JSONstringify(a)

\* inventoryUpdated in answer to bankDepositAll: the inventory is empty
DepositEmpties ==
  /\ state.connected
  /\ state.player
  /\ state.bankOpen
  /\ state.inventory # << >>
  /\ lastThoughtIs(Action("hyperscape_bank_deposit_all", NoParams))
  /\ state' = [state EXCEPT !.inventory = << >>]
  /\ sent' = NoSent
  /\ last' = NoEvent
  /\ UNCHANGED << delivered, calls, faults, config, now, running, tickTimer, timers,
                  timerSeq, tasks, goalContext, currentGoal, goalProgress, thoughts,
                  stats, proposed, result >>

ServerBank ==
  \/ WsOpen
  \/ Snapshot(BankWorld)
  \/ BankState
  \/ DepositEmpties

\* the steps of the loop that this server and one start() give rise to
TicksBank ==
  \/ TimerFiresTimeout
  \/ TimerFiresGoal
  \/ ResumeTimeout
  \/ ResumeNewGoal
  \/ ResumeAction
  \/ ResumeStart
  \/ ResumeTickStopped

\* the session is started once, before the first tick interval has passed
StartBank == now = 0 /\ Start

NextBank ==
  \/ TicksBank
  \/ StartBank
  \/ ServerBank
  \/ Elapse

SpecBank ==
  /\ Init
  /\ [][NextBank]_vars
  /\ WF_vars(TicksBank)
  /\ WF_vars(Elapse)
  /\ WF_vars(DepositEmpties)

----------------------------------------------------------------------------
(* Specification SpecDeath: the agent on a client that is connected and has *)
(* received the snapshot of a wounded player; the server heals or kills    *)
(* the player                                                              *)

\* the snapshot received before the agent was constructed
WoundedWorld == World(14, FALSE, << I_fish >>, << >>)

InitDeath ==
  /\ state = handleSnapshot([InitialClientState EXCEPT !.connected = TRUE], WoundedWorld)
  /\ delivered = 0
  /\ calls = 0
  /\ faults = FALSE
  /\ \E cfg \in Configs : Constructed(cfg, 0)
  /\ proposed = NotRun
  /\ result = NotRun

ServerDeath ==
  \/ \E h \in LoopHealths : PlayerState(h)
  \/ DeathScreen
  \/ PlayerRespawned

\* the activations that go on after an await on this client: the goal is
\* never cleared by another activation, and a goal is always selectable
ResumeDeath ==
  \/ ResumeTimeout
  \/ ResumeTickStopped
  \/ ResumeComplete
  \/ ResumeNewGoal
  \/ ResumeAction
  \/ ResumeStart
  \/ ResumeStop

\* start() and stop() on the connected client
CallsDeath ==
  \/ StartAlreadyRunning
  \/ Start
  \/ StopNotRunning
  \/ Stop

NextDeath ==
  \/ TimerFires
  \/ ResumeDeath
  \/ CallsDeath
  \/ ServerDeath
  \/ Elapse

SpecDeath == InitDeath /\ [][NextDeath]_vars

----------------------------------------------------------------------------
(* Properties of the goal catalog, checked under SpecGoals *)

\* position of a goal in GOAL_TEMPLATES
catalogIndex(g) == CHOOSE i \in 1..Len(GOAL_TEMPLATES) : GOAL_TEMPLATES[i] = g

PossibleGoals == { g \in GoalIds : isPossible(g, state) }

\* C7: for every state and every context, selectGoal never returns a goal
\* whose isPossible(state) is false.
C7_SelectedGoalIsPossible ==
  result.ran => (result.goal # NoGoal => isPossible(result.goal, state))

\* C7 witness: a goal was selected although an impossible goal scores higher
C7_Witness ==
  /\ result.ran
  /\ result.goal # NoGoal
  /\ \E g \in GoalIds : /\ ~isPossible(g, state)
                        /\ result.scores[g] > result.scores[result.goal]

\* C8: selectGoal returns none iff no goal template is possible; otherwise it
\* returns a possible goal of maximum score, and among the possible goals of
\* maximum score the one earliest in catalog order.
C8_SelectsMaxScoreEarliest ==
  result.ran =>
    /\ (result.goal = NoGoal) <=> (PossibleGoals = {})
    /\ PossibleGoals # {} =>
         /\ result.goal \in PossibleGoals
         /\ \A g \in PossibleGoals :
              /\ result.scores[g] <= result.scores[result.goal]
              /\ result.scores[g] = result.scores[result.goal]
                   => catalogIndex(result.goal) <= catalogIndex(g)

\* C8 witness: two possible goals share the maximum score
C8_Witness ==
  /\ result.ran
  /\ result.goal # NoGoal
  /\ \E g \in PossibleGoals :
       /\ g # result.goal
       /\ result.scores[g] = result.scores[result.goal]

\* C9: for every state whose player is dead and every context, selectGoal
\* returns respawn; respawn scores 100, strictly more than every other goal
\* possible in that state.
C9_DeadSelectsRespawn ==
  (result.ran /\ state.player /\ state.isDead) =>
    /\ result.goal = "respawn"
    /\ result.scores["respawn"] = 100
    /\ \A g \in PossibleGoals \ {"respawn"} : result.scores[g] < 100

\* C9 witness: the player is dead and another goal is possible with a score
\* above 80
C9_Witness ==
  /\ result.ran
  /\ state.player /\ state.isDead
  /\ result.goal = "respawn"
  /\ \E g \in PossibleGoals \ {"respawn"} : result.scores[g] > 80

\* the goals whose score subtracts the diversity penalty
PenaltyGoals == {"train_combat", "gather_resources", "explore_area", "collect_loot"}

\* the penalty is 15 per completion up to three completions and 45 from
\* then on, and one more completion never lowers it
PenaltyIsCappedAndMonotone(g) ==
  LET count == goalContext.recentGoalCounts[g]
  IN  /\ result.penalty[g] = (IF count >= 3 THEN 45 ELSE 15 * count)
      /\ result.more[g] >= result.penalty[g]
      /\ result.penalty[g] <= 45

\* C10 as stated: the penalty is min(15 x count, 45), non-decreasing in the
\* count, and a goal completed at least once scores strictly lower than with
\* count 0 in the same state and context.
C10_Original_StrictlyLower ==
  result.ran =>
    \A g \in PenaltyGoals :
      /\ PenaltyIsCappedAndMonotone(g)
      /\ goalContext.recentGoalCounts[g] >= 1 => result.scores[g] < result.fresh[g]

\* C10 amended: the penalty is min(15 x count, 45), non-decreasing in the
\* count; a goal completed at least once never scores higher than with count
\* 0, and scores strictly lower whenever its score with count 0 is above the
\* floor of 0 at which scores are clamped.
C10_LowerUnlessClamped ==
  result.ran =>
    \A g \in PenaltyGoals :
      /\ PenaltyIsCappedAndMonotone(g)
      /\ goalContext.recentGoalCounts[g] >= 1 =>
           /\ result.scores[g] <= result.fresh[g]
           /\ result.fresh[g] > 0 => result.scores[g] < result.fresh[g]
           /\ result.fresh[g] = 0 => result.scores[g] = 0

\* C10 witness: a penalised goal, completed before, whose score is already
\* clamped to 0 without the penalty, and another one whose score is not
C10_Witness ==
  /\ result.ran
  /\ \E g \in PenaltyGoals :
       goalContext.recentGoalCounts[g] >= 1 /\ result.fresh[g] = 0
  /\ \E g \in PenaltyGoals :
       /\ goalContext.recentGoalCounts[g] >= 1
       /\ result.fresh[g] > 0 /\ result.scores[g] < result.fresh[g]

----------------------------------------------------------------------------
(* Properties of the guardrail catalog, checked under SpecGuardrails *)

\* the guardrails triggered by the proposed action in the current state
Triggered == { GUARDRAILS[k] : k \in { j \in 1..Len(GUARDRAILS) :
                                        isTriggered(GUARDRAILS[j], state, proposed) } }

Halting == { g \in Triggered : severity(g) \in {"block", "critical"} }
Warning == { g \in Triggered : severity(g) = "warning" }

seqToSet(seq) == { seq[i] : i \in 1..Len(seq) }

\* C2: allowed is false iff at least one triggered guardrail has severity
\* block or critical; violations lists exactly the triggered block/critical
\* guardrails, each once and with its message; warnings holds exactly the
\* messages of the triggered warning guardrails, whether or not the action is
\* allowed; triggered warning guardrails alone never make allowed false.
C2_AllowedIffNoHaltingTrigger ==
  result.ran =>
    LET r == result.check
    IN  /\ (~r.allowed) <=> (Halting # {})
        /\ { v.guardrail : v \in seqToSet(r.violations) } = Halting
        /\ Len(r.violations) = Cardinality(Halting)
        /\ \A v \in seqToSet(r.violations) : v.message = getMessage(v.guardrail, state)
        /\ seqToSet(r.warnings) = { getMessage(g, state) : g \in Warning }
        /\ Len(r.warnings) = Cardinality(Warning)
        /\ (Halting = {} /\ Warning # {}) => r.allowed

\* C2 witness: two warning guardrails and only the critical guardrail are
\* triggered, and elsewhere two warnings are triggered on an allowed action
C2_Witness ==
  /\ result.ran
  /\ \/ Cardinality(Warning) >= 2 /\ Halting = {"flee_threshold"}
     \/ Cardinality(Warning) >= 2 /\ Halting = {} /\ result.check.allowed

\* the allow-lists of the three UI guardrails, as the claim states them
C3_DialogueAllowList ==
  { "hyperscape_dialogue_respond", "hyperscape_dialogue_continue",
    "hyperscape_dialogue_close" }
C3_BankAllowList ==
  { "hyperscape_bank_deposit", "hyperscape_bank_deposit_all",
    "hyperscape_bank_withdraw", "hyperscape_bank_close", "hyperscape_status" }
C3_StoreAllowList ==
  { "hyperscape_store_buy", "hyperscape_store_sell", "hyperscape_store_close",
    "hyperscape_status" }

\* the proposed action is outside the allow-list of a UI that is open
OutsideOpenUi(s, action) ==
  \/ s.dialogueOpen /\ action.tool \notin C3_DialogueAllowList
  \/ s.bankOpen /\ action.tool \notin C3_BankAllowList
  \/ s.storeOpen /\ action.tool \notin C3_StoreAllowList

\* C3: if dialogueOpen, bankOpen or storeOpen is true and the action's tool
\* is not in that UI's allow-list, checkGuardrails returns allowed = false.
C3_UiOpenBlocksOtherActions ==
  (result.ran /\ OutsideOpenUi(state, proposed)) => ~result.check.allowed

\* C3 witness: with only the bank open, a move is refused by respect_bank
\* alone
C3_Witness ==
  /\ result.ran
  /\ state.bankOpen /\ ~state.dialogueOpen /\ ~state.storeOpen
  /\ proposed.tool = "hyperscape_move"
  /\ { v.guardrail : v \in seqToSet(result.check.violations) } = {"respect_bank"}

\* a string contains one of the valuable keywords, in any letter case
containsValuableKeyword(str) ==
  \E k \in 1..Len(valuablePatterns) : includes(toLowerCase(str), valuablePatterns[k])

\* C5: every drop of an item whose id or inventory name contains a valuable
\* keyword (case-insensitive) is refused, also when the id matches a keyword
\* and the item's name in the inventory does not.
C5_ValuableDropBlocked ==
  (/\ result.ran
   /\ proposed.tool = "hyperscape_drop"
   /\ \/ containsValuableKeyword(proposed.params.itemId)
      \/ /\ inventoryNameOf(state, proposed.params.itemId) # Undefined
         /\ containsValuableKeyword(inventoryNameOf(state, proposed.params.itemId)))
  => ~result.check.allowed

----------------------------------------------------------------------------
(* Properties of the decision loop, checked under Spec *)

\* the command handed to the client in the last step
sentAction == Action(sent.tool, sent.params)

\* C1: no command is dispatched by the loop in a state in which
\* checkGuardrails returns allowed = false for that command, whether it is the
\* goal's action, the fallback after a block, the respawn on death or the
\* random move.
C1_DispatchedCommandsAllowed ==
  sent # NoSent => checkGuardrails(sent.pre, sentAction).allowed

\* C4: a command dispatched while the bank, a dialogue or the store is open
\* is on the allow-list of that UI.
C4_DispatchesRespectOpenUi ==
  sent # NoSent =>
    /\ sent.pre.bankOpen => sent.tool \in bankActions \cup {"hyperscape_status"}
    /\ sent.pre.dialogueOpen => sent.tool \in dialogueActions
    /\ sent.pre.storeOpen => sent.tool \in storeActions \cup {"hyperscape_status"}

\* a timer callback begins a tick of a running session below the duration
\* ceiling and finds the player dead
DeadTickBegins ==
  /\ running
  /\ stats'.tickCount = stats.tickCount + 1
  /\ goalContext'.sessionDuration < config.maxSessionDuration
  /\ state.player /\ state.isDead

\* a tick suspended at the "Action:" line of its respawn goes on
DeadTickResumes ==
  /\ Len(tasks') < Len(tasks)
  /\ \E i \in 1..Len(tasks) :
       /\ tasks[i].pc = "action_log" /\ tasks[i].by = "respawn"
       /\ tasks' = others(i)

\* the step leaves the goal, its progress, the goal history and the thought
\* log alone
GoalLogicUntouched ==
  /\ currentGoal' = currentGoal
  /\ goalProgress' = goalProgress
  /\ thoughts' = thoughts
  /\ stats'.goalsCompleted = stats.goalsCompleted
  /\ goalContext'.recentGoals = goalContext.recentGoals
  /\ goalContext'.recentGoalCounts = goalContext.recentGoalCounts

\* the step hands exactly the respawn command to the client
RespawnDispatched ==
  /\ sent'.tool = "hyperscape_respawn"
  /\ sent'.by = "respawn"
  /\ state' = state

\* C6: a tick of a running session below the duration ceiling that finds the
\* player dead dispatches the respawn command and nothing else: the goal
\* and its progress stay, no goal is completed or selected and no thought is
\* appended (a guardrail check runs only inside think(), whose thought is
\* always appended).  With verbose logging the tick is suspended once, at
\* the "Action:" line, with the respawn as its only pending command, and
\* dispatches it when it resumes.
C6_DeadTickOnlyRespawns ==
  [][ /\ DeadTickBegins =>
         /\ GoalLogicUntouched
         /\ IF config.verbose
            THEN /\ sent' = NoSent
                 /\ tasks' = Append(tasks, Task("tick", "action_log",
                                                Action("hyperscape_respawn", NoParams),
                                                "respawn"))
            ELSE /\ RespawnDispatched
                 /\ tasks' = tasks
      /\ DeadTickResumes => GoalLogicUntouched /\ RespawnDispatched
    ]_vars

\* a respawn was dispatched by the death check while a goal with progress
\* was active
C6_Witness ==
  /\ sent # NoSent
  /\ sent.by = "respawn"
  /\ sent.pre.isDead
  /\ currentGoal # NoGoal
  /\ goalProgress # NoProgress
  /\ thoughts # << >>

----------------------------------------------------------------------------
(* Properties of the session: its duration ceiling, start() and stop(),    *)
(* checked under SpecSession                                               *)

\* a tick of the session in progress has found the session at its ceiling:
\* sessionDuration is written by the timing update of tick() alone and is
\* set back to 0 by start()
TimedOut == goalContext.sessionDuration >= config.maxSessionDuration

\* the suspended ticks that stand at the log line of the timeout check
timeoutTicks(ts) == { i \in 1..Len(ts) : ts[i].kind = "tick" /\ ts[i].pc = "timeout_log" }

\* the step runs a timer callback in a session that is at its ceiling
CeilingTickBegins == last' = Fired /\ TimedOut'

\* the step takes a tick on from the log line of the timeout check, or from
\* the logs of the stop() it called
CeilingTickResumes ==
  /\ last'.op = "log"
  /\ \E i \in 1..Len(tasks) :
       /\ tasks[i].kind = "tick" /\ tasks[i].pc \in {"timeout_log", "stop_logs"}
       /\ \/ tasks' = others(i)
          \/ tasks' = Append(others(i), Task("tick", "stop_logs", NoAction, "none"))

\* C11: once a tick has found sessionDuration >= maxSessionDuration, that
\* tick and every timer callback that runs later in the session complete or
\* select no goal, derive no thought (so check no guardrail) and dispatch no
\* command, the death check included; when the tick has passed its log line
\* the session is not running, and the tick schedules no timer unless
\* start() has begun another session in between.
C11_CeilingStopsSession ==
  [][ /\ CeilingTickBegins =>
         /\ GoalLogicUntouched
         /\ sent' = NoSent
         /\ state' = state
         /\ \/ tasks' = tasks
            \/ tasks' = Append(tasks, Task("tick", "timeout_log", NoAction, "none"))
         /\ timers' \subseteq timers
      /\ CeilingTickResumes =>
         /\ GoalLogicUntouched
         /\ sent' = NoSent
         /\ state' = state
         /\ running' => running
         /\ ~running' => timers' \subseteq timers
      /\ TimedOut' => ~running' \/ timeoutTicks(tasks') # {}
    ]_vars

\* two ticks of one session stand at the log line of the timeout check: the
\* second began after the first had found the session at its ceiling
C11_Witness ==
  /\ TimedOut
  /\ Cardinality(timeoutTicks(tasks)) = 2

\* the ticks in progress: the activations of tick() suspended at an await
ticksInProgress == { i \in 1..Len(tasks) : tasks[i].kind = "tick" }

\* C12: at any time at most one tick is in progress and at most one tick
\* timer is pending.
C12_OneTickOneTimer ==
  /\ Cardinality(ticksInProgress) <= 1
  /\ Cardinality(timers) <= 1

\* C13: while the agent is stopped (running is false before and after the
\* step, so no start() has intervened) no step hands a command to the client
\* or appends to the thought log, also not the step of a tick that was
\* suspended when stop() was called.
C13_StoppedLoopIsSilent ==
  [][ ~running /\ ~running' => sent' = NoSent /\ thoughts' = thoughts ]_vars

\* C14: a session that has left Running stays stopped: an agent that is not
\* running after it has scheduled a tick is not running after any step.
C14_StoppedIsTerminal ==
  [][ ~running /\ timerSeq > 0 => ~running' ]_vars

\* the step leaves every field of the agent and the client state alone
AgentUnchanged ==
  /\ running' = running
  /\ tickTimer' = tickTimer
  /\ timers' = timers
  /\ tasks' = tasks
  /\ stats' = stats
  /\ goalContext' = goalContext
  /\ currentGoal' = currentGoal
  /\ goalProgress' = goalProgress
  /\ thoughts' = thoughts
  /\ state' = state
  /\ sent' = NoSent

\* C15: start() called while the agent is not running and the client is not
\* connected throws and changes nothing: running stays false, no timer is
\* created, and statistics and goal context keep their values.
C15_StartNotConnectedThrows ==
  [][ last'.op = "start" /\ ~running /\ ~state.connected =>
        last'.outcome = "throws" /\ AgentUnchanged ]_vars

\* start() has thrown on an agent that has run a session before: its
\* statistics and goal context are those of that session
C15_Witness ==
  /\ last = Called("start", "throws")
  /\ ~running
  /\ stats.tickCount > 0
  /\ goalContext # createGoalContext

\* C16: start() called while the agent is running returns without an error
\* and changes nothing: statistics, goal context, goal and progress keep
\* their values and no timer is created.
C16_StartWhileRunningIsNoOp ==
  [][ last'.op = "start" /\ running =>
        last'.outcome = "returns" /\ AgentUnchanged ]_vars

\* start() has returned on a running agent that has ticked, has a goal and
\* has its next tick pending
C16_Witness ==
  /\ last = Called("start", "returns")
  /\ running
  /\ stats.tickCount > 0
  /\ currentGoal # NoGoal
  /\ \E t \in timers : t.id = tickTimer

\* C17: a step in which the client method of a command throws, in a session
\* that is running after the step, schedules the next tick.
C17_DispatchFailureKeepsLoop ==
  [][ sent' # NoSent /\ sent'.threw /\ running' =>
        \E t \in timers' \ timers : t.id = tickTimer' ]_vars

\* what the i-th suspended activation does when this.log returns
Proceeds(i) ==
  CASE tasks[i].pc = "timeout_log"  -> AfterTimeoutLog(i)
    [] tasks[i].pc = "stop_logs"    -> AfterStopLogs(i)
    [] tasks[i].pc = "complete_log" -> AfterCompleteLog(i)
    [] tasks[i].pc = "newgoal_log"  -> AfterNewGoalLog(i)
    [] tasks[i].pc = "nogoal_log"   -> AfterNoGoalLog(i)
    [] tasks[i].pc = "action_log"   -> AfterActionLog(i)
    [] tasks[i].pc = "start_logs"   -> AfterStartLogs(i)

\* C18: when the sink of an awaited log line rejects, the activation goes on
\* as it does when the sink resolves: the step it takes is a step of the
\* code after that log line (goal completion and selection, thought,
\* guardrail check, dispatch, scheduling of the next tick), and running is
\* changed only where that code changes it.
C18_SinkFailureContained ==
  [][ last' = Returned("rejected") => \E i \in 1..Len(tasks) : Proceeds(i) ]_vars

\* a tick whose log line met a rejecting sink has selected a goal, appended
\* its thought, dispatched its command and scheduled the next tick
C18_Witness ==
  /\ last = Returned("rejected")
  /\ running
  /\ sent # NoSent
  /\ sent.by = "goal"
  /\ thoughts # << >>
  /\ \E t \in timers : t.id = tickTimer

----------------------------------------------------------------------------
(* Bounded histories: the thought log (checked under SpecThoughts) and the
   recent-goal list (checked under SpecContext) *)

Chronological(entries) ==
  \A i \in 1..Len(entries) - 1 : entries[i].timestamp <= entries[i + 1].timestamp

\* the last n elements of a sequence, written with indices
lastOf(all, n) ==
  LET k == IF Len(all) < n THEN Len(all) ELSE n
  IN  [i \in 1..k |-> all[Len(all) - k + i]]

\* C19: the thought log holds at most 50 entries, in chronological order; it
\* is the most recent 50 of all thoughts made, and a thought appended to a
\* full log evicts the oldest entry and no other.
C19_ThoughtLogKeepsNewest50 ==
  /\ [](/\ Len(thoughts) <= 50
        /\ Chronological(thoughts)
        /\ thoughts = lastOf(result.all, 50))
  /\ [][Len(thoughts) = 50 /\ result'.pushes > result.pushes
          => thoughts' = Tail(thoughts) \o << result'.all[Len(result'.all)] >>]_vars

\* a thought was appended to a log of 50 entries
C19_Witness ==
  /\ result.pushes > 0
  /\ Len(result.all) > 50
  /\ Len(thoughts) = 50
  /\ thoughts[50] = result.all[Len(result.all)]
  /\ thoughts[50].goal = "train_combat"
  /\ thoughts[1] = result.all[Len(result.all) - 49]

\* the last n completions of a history, the newest first
newestFirst(completed, n) ==
  LET k == IF Len(completed) < n THEN Len(completed) ELSE n
  IN  [i \in 1..k |-> completed[Len(completed) + 1 - i]]

\* C20: recentGoals has at most 10 entries and is the last 10 completed goal
\* ids, the most recent first; a completion beyond the tenth drops the oldest
\* entry (the last one of the list).
C20_RecentGoalsNewestFirst ==
  /\ [](/\ Len(goalContext.recentGoals) <= 10
        /\ goalContext.recentGoals = newestFirst(result.completed, 10)
        /\ (result.completed # << >> =>
              goalContext.recentGoals[1] = result.completed[Len(result.completed)]))
  /\ [][Len(goalContext.recentGoals) = 10 /\ result'.completed # result.completed
          => /\ Len(goalContext'.recentGoals) = 10
             /\ \A i \in 1..9 : goalContext'.recentGoals[i + 1] = goalContext.recentGoals[i]]_vars

\* an eleventh completion, of a goal other than the one dropped
C20_Witness ==
  /\ Len(result.completed) = 11
  /\ Len(goalContext.recentGoals) = 10
  /\ result.completed[1] = "explore_area"
  /\ result.completed[2] = "train_combat"
  /\ result.completed[11] = "explore_area"
  /\ goalContext.recentGoals[10] = "train_combat"
  /\ goalContext.recentGoals[1] = "explore_area"

----------------------------------------------------------------------------
(* Low-health behaviour of the guardrails, the goals and the loop *)

\* the player entity exists, is alive and has health below pct percent of
\* its maximum
AliveBelow(s, pct) ==
  /\ s.player /\ ~s.isDead
  /\ s.health # UndefinedNum /\ s.maxHealth # UndefinedNum /\ s.maxHealth > 0
  /\ s.health * 100 < pct * s.maxHealth

\* C21: with the player alive and health below 15%, checkGuardrails on an
\* action that triggers no block-severity guardrail returns allowed = true
\* and lists the forced-flee message among the warnings.
\* Checked under SpecGuardrails.
C21_FleeThresholdOnlyWarns ==
  (/\ result.ran
   /\ AliveBelow(state, 15)
   /\ \A g \in Triggered : severity(g) # "block")
  => /\ result.check.allowed
     /\ getMessage("flee_threshold", state) \in seqToSet(result.check.warnings)

\* the step appends a thought; newThought is that thought
ThoughtAppended == thoughts' # thoughts
newThought == thoughts'[Len(thoughts')]

\* the active goal of the thinking tick derives an action in state s
GoalDerivesAction(s, g) ==
  g # NoGoal /\ \E rnd \in ExploreDraws : selectActionForGoal(s, g, rnd) # NoAction

\* use-item on a food item of the inventory, or home-teleport
HealOrFlee(a, s) ==
  \/ a.tool = "hyperscape_home_teleport"
  \/ /\ a.tool = "hyperscape_use_item"
     /\ \E k \in 1..Len(s.inventory) :
          /\ s.inventory[k].itemId = a.params.itemId
          /\ isFishOrMeatOrBread(s.inventory[k])

\* the step hands command a to the client, or (verbose) suspends the tick at
\* the "Action:" line with a as its pending command
Commanded(a) ==
  IF config.verbose
  THEN /\ sent' = NoSent
       /\ Len(tasks') > 0
       /\ tasks'[Len(tasks')].pc = "action_log"
       /\ tasks'[Len(tasks')].act = a
  ELSE /\ sent' # NoSent
       /\ Action(sent'.tool, sent'.params) = a

\* a tick suspended at the "Action:" line of a thought's command goes on and
\* hands exactly that command to the client
ThoughtCommandResumes ==
  \A i \in 1..Len(tasks) :
    (/\ tasks[i].pc = "action_log" /\ tasks[i].by \in {"goal", "fallback"}
     /\ tasks' = others(i) /\ Len(tasks') < Len(tasks))
    => /\ sent' # NoSent
       /\ Action(sent'.tool, sent'.params) = tasks[i].act

HealthBelow(s, pct) ==
  /\ s.player
  /\ s.health # UndefinedNum /\ s.maxHealth # UndefinedNum /\ s.maxHealth > 0
  /\ s.health * 100 < pct * s.maxHealth

\* C23: no attack command is handed to the client while the player's health
\* is below 25% of its maximum.
\* Checked under Spec.
C23_NoAttackBelowQuarterHealth ==
  (sent # NoSent /\ sent.tool = "hyperscape_attack") => ~HealthBelow(sent.pre, 25)

\* the player is alive, carries food and has health at exactly pct percent
\* of its maximum
AliveWithFoodAt(s, pct) ==
  /\ s.player /\ ~s.isDead
  /\ s.health # UndefinedNum /\ s.maxHealth # UndefinedNum /\ s.maxHealth > 0
  /\ s.health * 100 = pct * s.maxHealth
  /\ hasFood(s)

\* C24 as stated: with health at exactly 10% of maximum, the player alive and
\* food in the inventory, selectGoal returns flee_danger and flee_danger's
\* score is 100.  Checked under SpecGoals.
C24_Original_FleeScores100 ==
  (result.ran /\ AliveWithFoodAt(state, 10))
  => /\ result.goal = "flee_danger"
     /\ result.scores["flee_danger"] = 100

\* C24 amended: with health at exactly 10% of maximum, the player alive and
\* food in the inventory, selectGoal returns flee_danger, whose score is 95
\* (above eat_food's 80); the score is 100 where health is below 10%, and
\* flee_danger is returned there as well.
C24_FleeScores95AtTenPercent ==
  /\ (result.ran /\ AliveWithFoodAt(state, 10))
     => /\ result.goal = "flee_danger"
        /\ result.scores["flee_danger"] = 95
        /\ result.scores["eat_food"] = 80
  /\ (result.ran /\ AliveBelow(state, 10) /\ hasFood(state))
     => /\ result.goal = "flee_danger"
        /\ result.scores["flee_danger"] = 100

\* selectGoal was applied at health 10 of 100 with a fish in the inventory,
\* in a context where goals have been completed before
C24_Witness ==
  /\ result.ran
  /\ AliveWithFoodAt(state, 10)
  /\ state.inventory = << I_fish >>
  /\ goalContext.recentGoals # << >>
  /\ result.goal = "flee_danger"

\* the combat scenario: health at 90%, a weapon equipped, no target, no UI
\* open, and next to the player entity exactly one entity, a living mob
\* whose level equals the player's combat level
CombatScenario(s) ==
  /\ s.player /\ ~s.isDead
  /\ s.health * 100 = 90 * s.maxHealth
  /\ hasWeapon(s)
  /\ s.currentTarget = NullId
  /\ ~s.bankOpen /\ ~s.dialogueOpen /\ ~s.storeOpen
  /\ Len(s.nearbyEntities) = 2
  /\ Len(getNearbyMobs(s)) = 1
  /\ getMobLevel(getNearbyMobs(s)[1]) = getPlayerCombatLevel(s)

attackOn(s) == Action("hyperscape_attack", [targetId |-> getNearbyMobs(s)[1].id])

namedFood(item) ==
  /\ item.name # Undefined
  /\ \/ includes(toLowerCase(item.name), W_fish)
     \/ includes(toLowerCase(item.name), W_meat)
     \/ includes(toLowerCase(item.name), W_bread)

\* the fallback in the priority order of C27, for a state with a player
expectedFallback(s) ==
  LET food == SelectSeq(s.inventory, namedFood)
  IN  IF HealthBelow(s, 25)
      THEN IF food # << >>
           THEN Action("hyperscape_use_item", [itemId |-> food[1].itemId])
           ELSE Action("hyperscape_home_teleport", NoParams)
      ELSE IF s.dialogueOpen THEN Action("hyperscape_dialogue_continue", NoParams)
      ELSE IF s.bankOpen THEN Action("hyperscape_bank_close", NoParams)
      ELSE IF s.storeOpen THEN Action("hyperscape_store_close", NoParams)
      ELSE NoAction

\* C27: for every state with a player entity the fallback chosen after a
\* block is: with health below 25%, use-item on the first inventory item
\* whose name contains fish, meat or bread, or home-teleport when there is
\* none; else dialogue-continue if a dialogue is open; else bank-close if the
\* bank is open; else store-close if the store is open; else none.
\* Checked under SpecGuardrails.
C27_FallbackPriorityOrder ==
  (result.ran /\ state.player)
  => getAlternativeAction(state, result.check) = expectedFallback(state)

\* C28: a tick that thinks while the player is alive with health below 25%
\* of its maximum commands nothing but use-item on a food item or
\* home-teleport, whatever goal is active.  Checked under Spec.
C28_LowHealthOnlyHealsOrFlees ==
  [][ (ThoughtAppended /\ AliveBelow(state, 25) /\ newThought.action # JSONnull)
      => HealOrFlee(JSONparse(newThought.action), state) ]_vars

----------------------------------------------------------------------------
(* Properties of updateGoalContext and of the timing update of tick() *)

\* C29: updateGoalContext(context, goalId) returns a context whose
\* timeSinceLastCombat is 0 if the goal's category is combat and the input's
\* value otherwise, whose timeSinceLastSkilling is 0 if the category is
\* skilling or gathering and the input's value otherwise, whose
\* sessionDuration and xpGained are the input's, and whose counters are the
\* input's with the completed goal's counter increased by 1; no object of
\* the input is changed.  Checked under SpecUpdate.
C29_UpdateTouchesOnlyItsFields ==
  result.ran =>
    LET inp == result.before["context"]
        out == result.after["updated"]
        counts == result.after[out.recentGoalCounts]
        cat == category(result.goalId)
    IN  /\ out.timeSinceLastCombat =
             IF cat = "combat" THEN 0 ELSE inp.timeSinceLastCombat
        /\ out.timeSinceLastSkilling =
             IF cat \in {"skilling", "gathering"} THEN 0 ELSE inp.timeSinceLastSkilling
        /\ out.sessionDuration = inp.sessionDuration
        /\ out.xpGained = inp.xpGained
        /\ \A g \in GoalIds :
             counts[g] = result.input.recentGoalCounts[g]
                           + (IF g = result.goalId THEN 1 ELSE 0)
        /\ \A a \in DOMAIN result.before : result.after[a] = result.before[a]
        /\ goalContext = updateGoalContext(result.input, result.goalId)

\* a gathering goal was completed in a context with earlier completions and
\* a running combat timer: the skilling timer was reset, the combat timer
\* kept
C29_Witness ==
  /\ result.ran
  /\ result.goalId = "gather_resources"
  /\ result.input.recentGoalCounts["gather_resources"] = 3
  /\ result.input.timeSinceLastCombat = 59999
  /\ result.input.timeSinceLastSkilling = 59999
  /\ goalContext.timeSinceLastSkilling = 0
  /\ goalContext.timeSinceLastCombat = 59999
  /\ goalContext.recentGoalCounts["gather_resources"] = 4

\* the step begins a tick: a timer callback calls tick(), which passes its
\* running check
TickBegins == last' = Fired /\ running

\* t advanced by d, Infinity staying Infinity
advancedBy(t, d) == IF t = Infinity THEN Infinity ELSE t + d

\* C30 as stated: each tick increases tickCount by 1 and advances
\* sessionDuration, timeSinceLastCombat and timeSinceLastSkilling by exactly
\* tickInterval, and sessionDuration equals tickCount x tickInterval after
\* every tick of a session.  Checked under SpecTiming.
C30_Original_DurationIsTicksTimesInterval ==
  [][ TickBegins =>
        /\ stats'.tickCount = stats.tickCount + 1
        /\ goalContext'.sessionDuration = goalContext.sessionDuration + config.tickInterval
        /\ goalContext'.timeSinceLastCombat =
             advancedBy(goalContext.timeSinceLastCombat, config.tickInterval)
        /\ goalContext'.timeSinceLastSkilling =
             advancedBy(goalContext.timeSinceLastSkilling, config.tickInterval)
        /\ goalContext'.sessionDuration = stats'.tickCount * config.tickInterval
    ]_vars

\* C30 amended: each tick increases tickCount by 1, advances
\* timeSinceLastCombat and timeSinceLastSkilling by exactly tickInterval
\* (Infinity stays Infinity) and sets sessionDuration to the time that has
\* passed since the session started, which is the sum of the delays between
\* the ticks and not tickCount x tickInterval.
C30_TickTimingUpdate ==
  [][ TickBegins =>
        /\ stats'.tickCount = stats.tickCount + 1
        /\ goalContext'.sessionDuration = now - stats.sessionStart
        /\ goalContext'.timeSinceLastCombat =
             advancedBy(goalContext.timeSinceLastCombat, config.tickInterval)
        /\ goalContext'.timeSinceLastSkilling =
             advancedBy(goalContext.timeSinceLastSkilling, config.tickInterval)
    ]_vars

\* a tick has just begun later than tickCount tick intervals after the start
\* of its session, and has advanced the skilling timer that a completed
\* gathering goal had reset
C30_Witness ==
  /\ last = Fired
  /\ goalContext.timeSinceLastSkilling = config.tickInterval
  /\ goalContext.sessionDuration = now - stats.sessionStart
  /\ goalContext.sessionDuration > stats.tickCount * config.tickInterval

----------------------------------------------------------------------------
(* The goal and the statistics over the life of a session *)

\* the session has been stopped and every activation has ended
StoppedAndQuiet == ~running /\ tasks = << >> /\ stats.tickCount > 0

\* C31: when the session has stopped (by stop() or by the duration ceiling)
\* the active goal and its progress are none, and a start() that follows
\* begins with no active goal and no progress.  Checked under Spec.
C31_StopDiscardsGoal ==
  /\ [](StoppedAndQuiet => currentGoal = NoGoal /\ goalProgress = NoProgress)
  /\ [][(~running /\ running') => currentGoal' = NoGoal /\ goalProgress' = NoProgress]_vars

\* the session ran and has been stopped (by stop() or by the duration ceiling)
Stopped == ~running /\ stats.tickCount > 0

\* a packet of the server is handled by the client in this step
PacketHandled == delivered' = delivered + 1

\* C32: once the session is stopped its statistics are final: no packet
\* handled after the stop (xpDrop, deathScreen, gatheringComplete,
\* combatDamageDealt) changes a counter returned by getStats().  Checked
\* under Spec.
C32_StatsFinalAfterStop ==
  [][(Stopped /\ PacketHandled) => stats' = stats]_vars

\* start() replaces the statistics in this step
StatsReset == ~running /\ running'

\* the counter is zero after a reset, one more after a step in which the
\* listener of this event ran, and what it was after every other step
CountsEvent(field, kind) ==
  stats'[field] = IF StatsReset THEN 0
                  ELSE IF last' = Event(kind) THEN stats[field] + 1
                  ELSE stats[field]

\* C33: however the events of the client interleave with the ticks and their
\* suspended activations, mobsKilled counts the damage events with killed,
\* resourcesGathered the gathering-complete events and deaths the death
\* events since start() last reset the statistics: every such event adds
\* one, and no other step changes the counter.  Checked under Spec.
C33_TelemetryCountsEvents ==
  [][/\ CountsEvent("mobsKilled", "killed")
     /\ CountsEvent("resourcesGathered", "gatheringComplete")
     /\ CountsEvent("deaths", "death")]_vars

\* two events were counted while an activation of the tick was suspended
C33_Witness ==
  /\ running
  /\ tasks # << >>
  /\ stats.tickCount > 0
  /\ last = Event("killed")
  /\ stats.mobsKilled = 1
  /\ stats.deaths + stats.resourcesGathered = 1

\* C35: at every point the active goal and its progress agree: there is a
\* goal exactly when there is a progress record, and the record carries the
\* id of the goal.  Checked under Spec and SpecSession.
C35_GoalAndProgressAgree ==
  /\ (currentGoal = NoGoal) <=> (goalProgress = NoProgress)
  /\ goalProgress # NoProgress => goalProgress.goalId = currentGoal

\* a goal was completed and cleared, and the goal selected after it is active
\* with its own progress record
C35_Witness ==
  /\ stats.goalsCompleted > 0
  /\ currentGoal # NoGoal
  /\ goalProgress.goalId = currentGoal

----------------------------------------------------------------------------
(* The read of the thought log *)

\* C34: getThoughts(limit) changes nothing of the agent and, for every
\* limit >= 0, zero included, returns at most limit entries: the most recent
\* ones of the log, in the order of the log.  Checked under SpecRead.
C34_GetThoughtsReturnsAtMostLimit ==
  proposed.ran =>
    /\ Len(proposed.got) <= proposed.limit
    /\ proposed.got = lastOf(proposed.log, proposed.limit)
    /\ Chronological(proposed.got)

----------------------------------------------------------------------------
(* The command derived for a goal *)

\* the goals of the catalog that are possible in state s and for which
\* selectActionForGoal returns null
withoutAction(s) ==
  { g \in GoalIds :
      /\ isPossible(g, s)
      /\ \A rnd \in ExploreDraws : selectActionForGoal(s, g, rnd) = NoAction }

\* C36: in every state, a goal whose isPossible is true has a non-null
\* action from selectActionForGoal; this includes eat_food made possible by
\* an item id containing "cooked" and bank_items made possible by an unnamed
\* entity of type "bank".  Checked under SpecGoals.
C36_PossibleGoalHasAction == withoutAction(state) = {}

----------------------------------------------------------------------------
(* The bank_items goal *)

BankGoalOpen == currentGoal = "bank_items" /\ state.bankOpen

\* while bank_items is active and the bank UI is open, no step of the loop
\* closes the bank or ends the goal
BankGoalKeptWhileOpen ==
  [][BankGoalOpen => (state'.bankOpen /\ currentGoal' = "bank_items")]_vars

\* C37: with fair ticks, on a server that closes the bank UI only when asked
\* to and that empties the inventory on deposit-all, a bank_items goal whose
\* bank UI is open is eventually completed: the goal is cleared and counted.
\* Checked under SpecBank.
C37_BankGoalEventuallyCompletes ==
  BankGoalOpen ~> (currentGoal # "bank_items" /\ stats.goalsCompleted > 0)

----------------------------------------------------------------------------
(* The target of the client *)

\* the entity with this id is in nearbyEntities and is not marked dead
presentAndAlive(s, id) ==
  \E i \in 1..Len(s.nearbyEntities) :
    /\ s.nearbyEntities[i].id = id
    /\ s.nearbyEntities[i].alive # "false"

\* C38: currentTarget of the client, when not null, is the id of an entity
\* that is in nearbyEntities and alive: it is cleared when the entity is
\* removed, is marked dead, or is missing from the snapshot that replaces
\* the entity map.  Checked under Spec.
C38_TargetPresentAndAlive ==
  state.currentTarget # NullId => presentAndAlive(state, state.currentTarget)

----------------------------------------------------------------------------
(* The commands of a tick *)

\* a command is handed to the client in this step
Dispatches == sent'.tool # "null"

\* the activation that took this step has ended: a timer callback leaves no
\* suspended activation behind, a resumed activation is gone from tasks
ActivationEnds ==
  IF last' = Fired THEN tasks' = tasks ELSE Len(tasks') = Len(tasks) - 1

\* C39: a tick hands at most one command to the client, whichever branch it
\* takes: a step hands over one command at most, and the step that does is
\* the last step of its tick, so no later step of that tick can hand over
\* another.  Checked under Spec.
C39_OneCommandPerTick == [][Dispatches => ActivationEnds]_vars

\* a resumed tick has handed the fallback command to the client
C39_Witness ==
  /\ sent.tool # "null"
  /\ sent.by = "fallback"
  /\ last = Returned("resolved")

----------------------------------------------------------------------------
(* The death of the player and the goal selection *)

\* C40: the goal selection of a tick never runs on a state whose death flag
\* is set, so respawn is never the active goal of the loop, also when the
\* death is delivered while the tick is suspended between its death check
\* and selectGoal.  Checked under SpecDeath.
C40_RespawnNeverActiveGoal == currentGoal # "respawn"

====
